---- MODULE Spec2Model ----
(***************************************************************************)
(* Vote BNMIT (jashjop/secureVoting): the vote-casting flow of the         *)
(* VotingInterface component over the SecureStorage collections.           *)
(*                                                                         *)
(* Storage is the browser's localStorage: one value per key, every save    *)
(* rewrites the whole collection, every get re-reads it.  An event handler *)
(* runs to completion (the code has no await), so one handler is one       *)
(* action.  Several tabs share the storage and interleave handler by       *)
(* handler.                                                                *)
(***************************************************************************)
EXTENDS Integers, Sequences, FiniteSets, TLC

(***************************************************************************)
(* Bounds of the model.                                                    *)
(***************************************************************************)
\* voting sessions (and voter tokens) ever created
MaxSessions == 2
\* Vote records in the Votes collection
MaxVotes == 3
\* entries in the security log
MaxLogs == 2
\* Vote records in the stored collection the results are computed from
MaxTally == 4
\* viewResults calls
MaxViews == 2
\* registered voters
MaxRegistered == 2
\* the last time of the clock
MaxNow == 3

(***************************************************************************)
(* Program constants.                                                      *)
(***************************************************************************)
\* useState(30 * 60): the countdown of a voting session, in seconds
SessionSeconds == 1800
\* storage writes of submitVotes inside its try block, in program order:
\* saveVotes, saveUsers, setCurrentUser, saveElections, saveVotingSessions,
\* addSecurityLog
SubmitWrites == 6

(***************************************************************************)
(* JSON texts and digests.                                                 *)
(***************************************************************************)
\* JavaScript values: null, undefined, strings, numbers and booleans (by their
\* literal), arrays, and objects as the sequence of their own properties
JsonNull == [type |-> "null"]
Undefined == [type |-> "undefined"]
JsonString(value) == [type |-> "string", value |-> value]
JsonNumber(value) == [type |-> "number", value |-> value]
JsonBoolean(value) == [type |-> "boolean", value |-> value]
JsonArray(items) == [type |-> "array", items |-> items]
Member(name, value) == [name |-> name, value |-> value]
JsonObjectOf(members) == [type |-> "object", members |-> members]
JsonObject(id) == JsonObjectOf(<<Member("id", JsonString(id))>>)

\* x.name: the value of the own property, undefined when there is none
Field(x, name) ==
  IF \E i \in 1..Len(x.members) : x.members[i].name = name
  THEN x.members[CHOOSE i \in 1..Len(x.members) : x.members[i].name = name].value
  ELSE Undefined

\* JSON texts: the literal null, a string, number or boolean literal, an
\* array of texts, an object of named texts
NullText == [text |-> "null"]
LiteralText(type, value) == [text |-> type, value |-> value]
ArrayText(elements) == [text |-> "array", elements |-> elements]
ObjectText(members) == [text |-> "object", members |-> members]

\* JSON.stringify that writes a property holding undefined as null
RECURSIVE JsonStringifyNulls(_)
JsonStringifyNulls(data) ==
  CASE data.type \in {"null", "undefined"} -> NullText
    [] data.type \in {"string", "number", "boolean"} -> LiteralText(data.type, data.value)
    [] data.type = "array" ->
         ArrayText([i \in 1..Len(data.items) |-> JsonStringifyNulls(data.items[i])])
    [] data.type = "object" ->
         ObjectText([i \in 1..Len(data.members) |->
                       [name |-> data.members[i].name,
                        text |-> JsonStringifyNulls(data.members[i].value)]])

\* the own properties that JSON.stringify writes: those not holding undefined
RECURSIVE Serialized(_)
Serialized(members) ==
  IF members = <<>> THEN <<>>
  ELSE IF Head(members).value.type = "undefined" THEN Serialized(Tail(members))
  ELSE <<Head(members)>> \o Serialized(Tail(members))

\* JSON.stringify(data) of a value that is not undefined: an undefined array
\* element becomes null, a property holding undefined is left out
RECURSIVE JsonStringify(_)
JsonStringify(data) ==
  CASE data.type = "null" -> NullText
    [] data.type \in {"string", "number", "boolean"} -> LiteralText(data.type, data.value)
    [] data.type = "array" ->
         ArrayText([i \in 1..Len(data.items) |->
                      IF data.items[i].type = "undefined" THEN NullText
                      ELSE JsonStringify(data.items[i])])
    [] data.type = "object" ->
         LET kept == Serialized(data.members)
         IN  ObjectText([i \in 1..Len(kept) |->
                           [name |-> kept[i].name, text |-> JsonStringify(kept[i].value)]])

\* JSON.parse(text) of a JSON text
RECURSIVE JsonParse(_)
JsonParse(json) ==
  CASE json.text = "null" -> JsonNull
    [] json.text \in {"string", "number", "boolean"} -> [type |-> json.text, value |-> json.value]
    [] json.text = "array" ->
         JsonArray([i \in 1..Len(json.elements) |-> JsonParse(json.elements[i])])
    [] json.text = "object" ->
         JsonObjectOf([i \in 1..Len(json.members) |->
                         Member(json.members[i].name, JsonParse(json.members[i].text))])

\* SECRET_KEY
SecretKey == <<"v", "o", "t", "i", "n", "g", "-", "p", "l", "a", "t", "f", "o", "r", "m", "-",
               "s", "e", "c", "r", "e", "t", "-", "2", "0", "2", "4">>

\* CryptoJS.SHA256(text).toString(): one digest per text
Sha256(text) == [algorithm |-> "sha256", of |-> text]

(***************************************************************************)
(* Entities.                                                               *)
(***************************************************************************)
Tabs == {"t1", "t2"}
Voters == {"v1", "v2"}
ElectionIds == {"e1", "e2"}
NoElectionId == "none"
\* the empty selection string of initialVotes
Unset == ""
NoToken == 0

\* Position and Candidate (types/index.ts); maxVotes is forced to 1
Position(id, cands) == [id |-> id, candidates |-> cands, maxVotes |-> 1]

\* the positions array of an election as a JavaScript value
PositionsValue(positions) ==
  JsonArray([i \in 1..Len(positions) |->
    JsonObjectOf(<<Member("id", JsonString(positions[i].id)),
                   Member("candidates",
                          JsonArray([j \in 1..Len(positions[i].candidates) |->
                                       JsonObject(positions[i].candidates[j])])),
                   Member("maxVotes", JsonNumber(positions[i].maxVotes))>>)])

\* hashElection that also hashes the vote counter
HashElectionCounted(election) ==
  Sha256(<<election.id, "-">> \o election.title
         \o <<"-", election.startDate, "-", election.endDate, "-",
              JsonStringify(PositionsValue(election.positions)), "-", election.totalVotes>>
         \o SecretKey)

\* hashElection: SHA256 of id, title, startDate, endDate and
\* JSON.stringify(positions) joined with "-", followed by SECRET_KEY; the id,
\* the dates and the JSON text are written as one symbol each
HashElection(election) ==
  Sha256(<<election.id, "-">> \o election.title
         \o <<"-", election.startDate, "-", election.endDate, "-",
              JsonStringify(PositionsValue(election.positions))>>
         \o SecretKey)

\* Election records as ElectionForm.handleSubmit stores them: totalVotes 0,
\* cryptographicHash '' and then hashElection(election); startDate and
\* endDate are times of the clock
ElectionWith(id, title, poss, startDate, endDate) ==
  LET election == [id |-> id, title |-> title, positions |-> poss, totalVotes |-> 0,
                   startDate |-> startDate, endDate |-> endDate, cryptographicHash |-> Unset]
  IN  [election EXCEPT !.cryptographicHash = HashElection(election)]

\* the title given to the elections of the initial state
ElectionTitle == <<"C", "o", "u", "n", "c", "i", "l">>

ElectionAt(id, poss, startDate, endDate) == ElectionWith(id, ElectionTitle, poss, startDate, endDate)

\* an election that started at time 0 and ends at time 2
Election(id, poss) == ElectionAt(id, poss, 0, 2)

ElectionE1 == Election("e1", <<Position("p1", <<"c1">>), Position("p2", <<"c2">>)>>)
ElectionE2 == Election("e2", <<Position("p3", <<"c3", "c4">>)>>)

\* the election prop of a tab that shows the dashboard (selectedElection = null)
NoElection == [id |-> NoElectionId, positions |-> <<>>]

\* the election prop of VotingInterface: what the flow reads of the record
ElectionProp(e) == [id |-> e.id, positions |-> e.positions]

\* User records as registration (voter) and initializeAdminAccount (admin)
\* store them: empty hasVoted and votingTokens maps
NewUser(id, role) ==
  [id |-> id, email |-> id, role |-> role,
   hasVoted |-> [e \in ElectionIds |-> FALSE],
   votingTokens |-> [e \in ElectionIds |-> NoToken]]

\* votingSession = null
NoSession == [sessionId |-> 0, voterToken |-> NoToken, electionId |-> NoElectionId, isActive |-> FALSE]

\* storage.getCurrentUser() = null
NoUser == [id |-> "nobody", email |-> "nobody", role |-> "none",
           hasVoted |-> [e \in ElectionIds |-> FALSE],
           votingTokens |-> [e \in ElectionIds |-> NoToken]]

VARIABLES
  \* localStorage (SecureStorage collections)
  users, elections, allVotes, sessions, logs, currentUser,
  \* per tab: the user prop of the dashboard, and the VotingInterface state
  tabUser, selectedElection, currentStep, votes, isSubmitting, votingSession,
  errors, showConfirmation, timeRemaining, isCompleted,
  \* the pending setTimeout(onComplete, 2000) of a tab
  completePending,
  \* source of the random token and session id
  nextId,
  \* history: issued[k] is the id of the user token k was generated for
  issued,
  \* history: how the last voting flow of a tab ended
  exit,
  \* history: the four collections as they were just before the tab's flow was entered
  entrySnap,
  \* ResultsViewer: the results shown, and the stored voting_results collection
  results, savedResults,
  \* history: the number of viewResults calls so far
  viewCount,
  \* ElectionManagement: the elections state of the administrator's tab
  mgmtElections,
  \* the tabs in which the application has been loaded
  loadedTabs,
  \* SecureStorage reads: a localStorage key, the item under it, and what the
  \* getter of the key gave when it was last called
  storedKey, storedItem, got,
  \* the clock (new Date()), and history: voteTimes[i] is the timestamp of the
  \* i-th record of the Votes collection (kept where the clock moves)
  now, voteTimes,
  \* history: the ids of the elections created with the ElectionForm
  created,
  \* SecurityMonitor: the logs state of the component
  monitorLogs,
  \* the encrypted item under each localStorage key
  localStorage,
  \* history: the last two calls of hashVote, argument and result
  hashCalls

storageVars == <<users, elections, allVotes, sessions, logs, currentUser>>
flowVars == <<selectedElection, currentStep, votes, isSubmitting, votingSession,
              errors, showConfirmation, timeRemaining, isCompleted>>
vars == <<users, elections, allVotes, sessions, logs, currentUser,
          tabUser, selectedElection, currentStep, votes, isSubmitting, votingSession,
          errors, showConfirmation, timeRemaining, isCompleted,
          completePending, nextId, issued, exit, entrySnap,
          results, savedResults, viewCount, mgmtElections, loadedTabs,
          storedKey, storedItem, got, now, voteTimes, created, monitorLogs, localStorage, hashCalls>>
\* the state of the components other than the voter's dashboard and VotingInterface
otherVars == <<results, savedResults, viewCount, mgmtElections, loadedTabs,
               storedKey, storedItem, got, now, voteTimes, created, monitorLogs, localStorage, hashCalls>>
\* the clock, the form and the security panel
extraVars == <<now, voteTimes, created, monitorLogs, localStorage, hashCalls>>

(***************************************************************************)
(* Helpers over sequences (Array.map / filter / find of the source).       *)
(***************************************************************************)
Range(s) == {s[i] : i \in 1..Len(s)}

RECURSIVE PositionsWhere(_, _, _, _)
\* the positions, from the i-th on and in order, whose selection in sel is
\* empty (chosen = FALSE) or non-empty (chosen = TRUE)
PositionsWhere(positions, sel, chosen, i) ==
  IF i > Len(positions) THEN <<>>
  ELSE IF (sel[positions[i].id] # Unset) = chosen
       THEN <<positions[i]>> \o PositionsWhere(positions, sel, chosen, i + 1)
       ELSE PositionsWhere(positions, sel, chosen, i + 1)

(***************************************************************************)
(* SecureStorage                                                           *)
(***************************************************************************)
\* hasUserVotedInElection that finds the flag on an administrator record only
HasUserVotedNever(us, userId, electionId) ==
  \E i \in 1..Len(us) : us[i].id = userId /\ us[i].hasVoted[electionId] = TRUE /\ us[i].role = "admin"

\* hasUserVotedInElection that reads the first user record instead of the matching one
HasUserVotedFirstUser(us, userId, electionId) ==
  Len(us) > 0 /\ us[1].hasVoted[electionId] = TRUE

\* hasUserVotedInElection that looks at the user's flags without the election id
HasUserVotedAnyElection(us, userId, electionId) ==
  \E i \in 1..Len(us) : us[i].id = userId /\ \E e \in ElectionIds : us[i].hasVoted[e] = TRUE

\* storage.hasUserVotedInElection(userId, electionId):
\*   user = getUsers().find(u => u.id === userId); user?.hasVoted?.[electionId] === true
HasUserVotedInElection(us, userId, electionId) ==
  \E i \in 1..Len(us) : us[i].id = userId /\ us[i].hasVoted[electionId] = TRUE

\* storage.getUserByEmail(email): the first user with that email, or null
GetUserByEmail(us, email) ==
  IF \E i \in 1..Len(us) : us[i].email = email
  THEN us[CHOOSE i \in 1..Len(us) :
            us[i].email = email /\ \A j \in 1..(i - 1) : us[j].email # email]
  ELSE NoUser

\* the entry addSecurityLog appends (id and timestamp left out)
SecurityLog(type, severity, userId, electionId) ==
  [type |-> type, severity |-> severity, userId |-> userId, electionId |-> electionId]

\* storage.addSecurityLog(log): logs = getSecurityLogs(); logs.push(newLog); save
AddSecurityLog(ls, log) == Append(ls, log)

(***************************************************************************)
(* VotingInterface: pure parts of the handlers                             *)
(***************************************************************************)
\* initialVotes: every position of the election mapped to ''
InitialVotes(election) ==
  [p \in {election.positions[i].id : i \in 1..Len(election.positions)} |-> Unset]

\* votes = {} of a tab that shows no voting flow
NoVotes == [p \in {} |-> Unset]

\* createVotingSession: the session record (expiresAt, ipAddress, userAgent left out)
NewSession(sessionId, voterToken, electionId) ==
  [sessionId |-> sessionId, voterToken |-> voterToken, electionId |-> electionId, isActive |-> TRUE]

\* the token update without the u.id === user.id test
UsersWithTokenAll(us, userId, electionId, voterToken) ==
  [i \in 1..Len(us) |-> [us[i] EXCEPT !.votingTokens[electionId] = voterToken]]

\* createVotingSession: users.map(u => u.id === user.id ? {...u, votingTokens: {...u.votingTokens, [election.id]: voterToken}} : u)
UsersWithToken(us, userId, electionId, voterToken) ==
  [i \in 1..Len(us) |->
     IF us[i].id = userId
     THEN [us[i] EXCEPT !.votingTokens[electionId] = voterToken]
     ELSE us[i]]

\* validateVotes that stops at the first position without a selection
ValidateVotesFirst(election, sel) ==
  LET missing == PositionsWhere(election.positions, sel, FALSE, 1)
  IN  [i \in 1..(IF Len(missing) > 0 THEN 1 ELSE 0) |-> missing[i].id]

\* validateVotes: one message per position whose selection is empty, in position order
ValidateVotes(election, sel) ==
  LET missing == PositionsWhere(election.positions, sel, FALSE, 1)
  IN  [i \in 1..Len(missing) |-> missing[i].id]

\* hashVote that leaves the timestamp out of the hashed string
HashVoteUntimed(vote) ==
  Sha256(vote.electionId \o <<"-">> \o vote.positionId \o <<"-">> \o vote.candidateId
         \o <<"-">> \o vote.voterToken \o SecretKey)

\* hashVote: SHA256 of the five fields joined with "-", followed by SECRET_KEY
HashVote(vote) ==
  LET voteString == vote.electionId \o <<"-">> \o vote.positionId \o <<"-">> \o vote.candidateId
                    \o <<"-">> \o vote.voterToken \o <<"-">> \o vote.timestamp
  IN  Sha256(voteString \o SecretKey)

\* the hashed fields of a stored Vote, each id and the timestamp written as a
\* string of one symbol
VoteData(vote) ==
  [electionId |-> <<vote.electionId>>, positionId |-> <<vote.positionId>>,
   candidateId |-> <<vote.candidateId>>, voterToken |-> <<vote.voterToken>>,
   timestamp |-> <<vote.timestamp>>]

\* verifyVoteIntegrity: hashVote of the five fields of the record === its cryptographicHash
VerifyVoteIntegrity(vote) == HashVote(VoteData(vote)) = vote.cryptographicHash

\* a Vote record whose hash is taken before its fields are filled in
VoteHashedEmpty(electionId, positionId, candidateId, voterToken, timestamp) ==
  [electionId |-> electionId, positionId |-> positionId, candidateId |-> candidateId,
   voterToken |-> voterToken, timestamp |-> timestamp,
   cryptographicHash |-> HashVote([electionId |-> <<>>, positionId |-> <<>>, candidateId |-> <<>>,
                                   voterToken |-> <<>>, timestamp |-> <<>>]),
   verified |-> TRUE]

\* submitVotes: the Vote record of one selection, {id, ...voteData,
\* cryptographicHash: hashVote(voteData), verified: true} (id left out)
Vote(electionId, positionId, candidateId, voterToken, timestamp) ==
  LET voteData == [electionId |-> electionId, positionId |-> positionId,
                   candidateId |-> candidateId, voterToken |-> voterToken,
                   timestamp |-> timestamp]
  IN  [electionId |-> electionId, positionId |-> positionId, candidateId |-> candidateId,
       voterToken |-> voterToken, timestamp |-> timestamp,
       cryptographicHash |-> HashVote(VoteData(voteData)), verified |-> TRUE]

\* submitVotes: newVotes, one Vote per entry of the selection map whose candidate id is non-empty
NewVotes(election, sel, voterToken, timestamp) ==
  LET chosen == PositionsWhere(election.positions, sel, TRUE, 1)
  IN  [i \in 1..Len(chosen) |->
         Vote(election.id, chosen[i].id, sel[chosen[i].id], voterToken, timestamp)]

\* submitVotes: users.map(u => u.id === user.id ? {...u, hasVoted: {...u.hasVoted, [election.id]: true}} : u)
UsersWithVote(us, userId, electionId) ==
  [i \in 1..Len(us) |->
     IF us[i].id = userId
     THEN [us[i] EXCEPT !.hasVoted[electionId] = TRUE]
     ELSE us[i]]

\* the counter update that counts the submission instead of its votes
ElectionsWithCountOne(els, electionId, n) ==
  [i \in 1..Len(els) |->
     IF els[i].id = electionId
     THEN [els[i] EXCEPT !.totalVotes = els[i].totalVotes + 1]
     ELSE els[i]]

\* submitVotes: elections.map(e => e.id === election.id ? {...e, totalVotes: e.totalVotes + newVotes.length} : e)
ElectionsWithCount(els, electionId, n) ==
  [i \in 1..Len(els) |->
     IF els[i].id = electionId
     THEN [els[i] EXCEPT !.totalVotes = els[i].totalVotes + n]
     ELSE els[i]]

\* a submitVotes that saves the sessions as it read them
SessionsKept(ss, sessionId) == ss

\* submitVotes: sessions.map(s => s.sessionId === votingSession.sessionId ? {...s, isActive: false} : s)
SessionsDeactivated(ss, sessionId) ==
  [i \in 1..Len(ss) |->
     IF ss[i].sessionId = sessionId
     THEN [ss[i] EXCEPT !.isActive = FALSE]
     ELSE ss[i]]

\* the votes written after the flag and the current user
VotesSavedLate(k) == k >= 3

\* submitVotes in which k of the storage writes succeed before one throws:
\* storage.saveVotes is the first write
VotesSaved(k) == k >= 1

\* the flag written before the votes
UsersSavedFirst(k) == k >= 0

\* storage.saveUsers is the second write
UsersSaved(k) == k >= 2

\* setIsCompleted(true) placed where it also runs after the catch
SucceededAlways(k) == k >= 0

\* setIsCompleted(true) and the setTimeout are reached when no write threw
Succeeded(k) == k >= SubmitWrites

\* the interval callback's updater: prev <= 1 ? 0 : prev - 1
TickValue(prev) == IF prev <= 1 THEN 0 ELSE prev - 1

\* the expiry test done on the value after the update: prev <= 0
TickExpiresAtZero(prev) == prev <= 0

\* the interval callback calls onCancel() exactly when prev <= 1
TickExpires(prev) == prev <= 1

\* the countdown after n firings of the interval callback in a row (TickValue
\* applied n times)
TickValues(prev, n) == IF n < prev THEN prev - n ELSE 0

(***************************************************************************)
(* Initial state: the admin account exists, two voters have registered and *)
(* logged in (one per tab, or the same voter in both tabs), the admin has  *)
(* created two elections, both now running, and no vote was cast yet.      *)
(***************************************************************************)
\* ResultsViewer: useState<ElectionResults | null>(null)
NoResults == [electionId |-> NoElectionId]

\* no getter of SecureStorage has been called
NoRead ==
  /\ storedKey = "voting_users"
  /\ storedItem = [kind |-> "absent"]
  /\ got = [outcome |-> "none"]

\* the clock stands at time 1; nothing was created with the ElectionForm and
\* the security panel was not opened; the encrypted items behind the
\* collections are followed in SpecRoundTrip only
ExtraInit ==
  /\ now = 1
  /\ voteTimes = <<>>
  /\ created = {}
  /\ monitorLogs = <<>>
  /\ localStorage = <<>>
  /\ hashCalls = <<>>

\* the components other than the voting flow, not yet used
OtherInit ==
  /\ results = NoResults
  /\ savedResults = <<>>
  /\ viewCount = 0
  /\ mgmtElections = <<>>
  /\ loadedTabs = Tabs
  /\ NoRead
  /\ ExtraInit

NoSnap == [allVotes |-> <<>>, users |-> <<>>, elections |-> <<>>, sessions |-> <<>>]

Init ==
  /\ users = <<NewUser("admin", "admin"), NewUser("v1", "voter"), NewUser("v2", "voter")>>
  /\ elections = <<ElectionE1, ElectionE2>>
  /\ allVotes = <<>>
  /\ sessions = <<>>
  /\ logs = <<>>
  /\ tabUser \in {f \in [Tabs -> {NewUser(v, "voter") : v \in Voters}] : f["t1"].id = "v1"}
  /\ currentUser = tabUser["t2"]
  /\ selectedElection = [t \in Tabs |-> NoElection]
  /\ currentStep = [t \in Tabs |-> 0]
  /\ votes = [t \in Tabs |-> NoVotes]
  /\ isSubmitting = [t \in Tabs |-> FALSE]
  /\ votingSession = [t \in Tabs |-> NoSession]
  /\ errors = [t \in Tabs |-> <<>>]
  /\ showConfirmation = [t \in Tabs |-> FALSE]
  /\ timeRemaining = [t \in Tabs |-> SessionSeconds]
  /\ isCompleted = [t \in Tabs |-> FALSE]
  /\ completePending = [t \in Tabs |-> FALSE]
  /\ nextId = 1
  /\ issued = <<>>
  /\ exit = [t \in Tabs |-> "none"]
  /\ entrySnap = [t \in Tabs |-> NoSnap]
  /\ OtherInit

(***************************************************************************)
(* Actions: one per event handler.                                         *)
(***************************************************************************)
\* a tab shows a VotingInterface
Mounted(t) == selectedElection[t] # NoElection

\* setSelectedElection(null) of the dashboard: the VotingInterface is unmounted,
\* its state is gone and its interval is cleared
CloseFlow(t, how) ==
  /\ selectedElection' = [selectedElection EXCEPT ![t] = NoElection]
  /\ currentStep' = [currentStep EXCEPT ![t] = 0]
  /\ votes' = [votes EXCEPT ![t] = NoVotes]
  /\ votingSession' = [votingSession EXCEPT ![t] = NoSession]
  /\ errors' = [errors EXCEPT ![t] = <<>>]
  /\ showConfirmation' = [showConfirmation EXCEPT ![t] = FALSE]
  /\ timeRemaining' = [timeRemaining EXCEPT ![t] = SessionSeconds]
  /\ isCompleted' = [isCompleted EXCEPT ![t] = FALSE]
  /\ isSubmitting' = [isSubmitting EXCEPT ![t] = FALSE]
  /\ exit' = [exit EXCEPT ![t] = how]

\* "Vote Now" on an election of the available list, then the mount effect of
\* VotingInterface: the double-vote check, createVotingSession, initialVotes
\* and the start of the countdown
EnterVoting(t, i) ==
  LET election == ElectionProp(elections[i])
      user == tabUser[t]
  IN  /\ ~Mounted(t)
      /\ ~user.hasVoted[election.id]
      /\ IF HasUserVotedInElection(users, user.id, election.id)
         THEN /\ Len(logs) < MaxLogs
              /\ logs' = AddSecurityLog(logs,
                   SecurityLog("double_vote_attempt", "high", user.id, election.id))
              /\ exit' = [exit EXCEPT ![t] = "cancelled"]
              /\ UNCHANGED <<users, elections, allVotes, sessions, currentUser, tabUser,
                             flowVars, completePending, nextId, issued>>
         ELSE /\ nextId <= MaxSessions
              /\ sessions' = Append(sessions, NewSession(nextId, nextId, election.id))
              /\ votingSession' = [votingSession EXCEPT ![t] = NewSession(nextId, nextId, election.id)]
              /\ users' = UsersWithToken(users, user.id, election.id, nextId)
              /\ votes' = [votes EXCEPT ![t] = InitialVotes(election)]
              /\ selectedElection' = [selectedElection EXCEPT ![t] = election]
              /\ timeRemaining' = [timeRemaining EXCEPT ![t] = SessionSeconds]
              /\ nextId' = nextId + 1
              /\ issued' = Append(issued, user.id)
              /\ exit' = [exit EXCEPT ![t] = "none"]
              /\ UNCHANGED <<elections, allVotes, logs, currentUser, tabUser, currentStep,
                             isSubmitting, errors, showConfirmation, isCompleted,
                             completePending>>

\* history: the collections as they are before the flow of tab t is entered
TakeSnap(t) ==
  entrySnap' = [entrySnap EXCEPT ![t] =
    [allVotes |-> allVotes, users |-> users, elections |-> elections, sessions |-> sessions]]

\* a click on a candidate card of the current position
HandleVoteChange(t, c) ==
  /\ Mounted(t) /\ ~showConfirmation[t] /\ ~isCompleted[t]
  /\ LET currentPosition == selectedElection[t].positions[currentStep[t] + 1]
     IN  /\ c \in Range(currentPosition.candidates)
         /\ votes' = [votes EXCEPT ![t][currentPosition.id] = c]
  /\ UNCHANGED <<storageVars, tabUser, selectedElection, currentStep, isSubmitting,
                 votingSession, errors, showConfirmation, timeRemaining, isCompleted,
                 completePending, nextId, issued, exit, entrySnap>>

\* "Next" / "Review Votes" of the step view
HandleNext(t) ==
  /\ Mounted(t) /\ ~showConfirmation[t] /\ ~isCompleted[t]
  /\ IF currentStep[t] < Len(selectedElection[t].positions) - 1
     THEN /\ currentStep' = [currentStep EXCEPT ![t] = currentStep[t] + 1]
          /\ UNCHANGED <<errors, showConfirmation>>
     ELSE /\ errors' = [errors EXCEPT ![t] = ValidateVotes(selectedElection[t], votes[t])]
          /\ showConfirmation' = [showConfirmation EXCEPT ![t] =
               Len(ValidateVotes(selectedElection[t], votes[t])) = 0]
          /\ UNCHANGED currentStep
  /\ UNCHANGED <<storageVars, tabUser, selectedElection, votes, isSubmitting,
                 votingSession, timeRemaining, isCompleted,
                 completePending, nextId, issued, exit, entrySnap>>

\* "Previous" of the step view (disabled on the first step)
HandlePrevious(t) ==
  /\ Mounted(t) /\ ~showConfirmation[t] /\ ~isCompleted[t]
  /\ currentStep[t] > 0
  /\ currentStep' = [currentStep EXCEPT ![t] = currentStep[t] - 1]
  /\ UNCHANGED <<storageVars, tabUser, selectedElection, votes, isSubmitting,
                 votingSession, errors, showConfirmation, timeRemaining, isCompleted,
                 completePending, nextId, issued, exit, entrySnap>>

\* "Review Votes" that also goes back to the first step
ReviewVotesFromStart(t) ==
  /\ selectedElection[t] # NoElection /\ showConfirmation[t] /\ ~isCompleted[t] /\ ~isSubmitting[t]
  /\ showConfirmation' = [showConfirmation EXCEPT ![t] = FALSE]
  /\ currentStep' = [currentStep EXCEPT ![t] = 0]
  /\ UNCHANGED <<storageVars, tabUser, selectedElection, votes, isSubmitting,
                 votingSession, errors, timeRemaining, isCompleted,
                 completePending, nextId, issued, exit, entrySnap>>

\* "Review Votes" of the confirmation view: setShowConfirmation(false)
ReviewVotes(t) ==
  /\ Mounted(t) /\ showConfirmation[t] /\ ~isCompleted[t] /\ ~isSubmitting[t]
  /\ showConfirmation' = [showConfirmation EXCEPT ![t] = FALSE]
  /\ UNCHANGED <<storageVars, tabUser, selectedElection, currentStep, votes, isSubmitting,
                 votingSession, errors, timeRemaining, isCompleted,
                 completePending, nextId, issued, exit, entrySnap>>

\* "Back" of the step view: onCancel
CancelVoting(t) ==
  /\ Mounted(t) /\ ~showConfirmation[t] /\ ~isCompleted[t]
  /\ CloseFlow(t, "cancelled")
  /\ UNCHANGED <<storageVars, tabUser, completePending, nextId, issued, entrySnap>>

\* "Submit Vote" of the confirmation view: submitVotes.  k is the number of
\* storage writes of the try block that complete before one throws
\* (localStorage.setItem can throw); k = SubmitWrites: none throws.
SubmitVotes(t, k) ==
  LET election == selectedElection[t]
      user == tabUser[t]
      newVotes == NewVotes(election, votes[t], votingSession[t].voterToken, now)
      updatedUsers == UsersWithVote(users, user.id, election.id)
      found == \E i \in 1..Len(updatedUsers) : updatedUsers[i].id = user.id
      updatedUser == updatedUsers[CHOOSE i \in 1..Len(updatedUsers) : updatedUsers[i].id = user.id]
  IN  /\ Mounted(t) /\ showConfirmation[t] /\ ~isCompleted[t] /\ ~isSubmitting[t]
      /\ IF votingSession[t] = NoSession
         THEN UNCHANGED vars
         ELSE IF HasUserVotedInElection(users, user.id, election.id)
         THEN /\ Len(logs) < MaxLogs
              /\ logs' = AddSecurityLog(logs,
                   SecurityLog("double_vote_attempt", "critical", user.id, election.id))
              /\ CloseFlow(t, "cancelled")
              /\ UNCHANGED <<users, elections, allVotes, sessions, currentUser, tabUser,
                             completePending, nextId, issued, entrySnap>>
         ELSE /\ VotesSaved(k) => Len(allVotes) + Len(newVotes) <= MaxVotes
              /\ k >= SubmitWrites => Len(logs) < MaxLogs
              /\ allVotes' = IF VotesSaved(k) THEN allVotes \o newVotes ELSE allVotes
              /\ users' = IF UsersSaved(k) THEN updatedUsers ELSE users
              /\ currentUser' = IF k >= 3 /\ found THEN updatedUser ELSE currentUser
              /\ elections' = IF k >= 4
                              THEN ElectionsWithCount(elections, election.id, Len(newVotes))
                              ELSE elections
              /\ sessions' = IF k >= 5
                             THEN SessionsDeactivated(sessions, votingSession[t].sessionId)
                             ELSE sessions
              /\ logs' = IF k >= SubmitWrites
                         THEN AddSecurityLog(logs, SecurityLog("vote_cast", "low", user.id, election.id))
                         ELSE logs
              /\ isSubmitting' = [isSubmitting EXCEPT ![t] = FALSE]
              /\ isCompleted' = [isCompleted EXCEPT ![t] = Succeeded(k)]
              /\ completePending' = [completePending EXCEPT ![t] = Succeeded(k) \/ completePending[t]]
              /\ UNCHANGED <<tabUser, selectedElection, currentStep, votes, votingSession,
                             errors, showConfirmation, timeRemaining, nextId, issued,
                             exit, entrySnap>>

\* one firing of the setInterval callback of a mounted VotingInterface
TimerTick(t) ==
  /\ Mounted(t)
  /\ IF TickExpires(timeRemaining[t])
     THEN CloseFlow(t, IF isCompleted[t] THEN "completed" ELSE "expired")
     ELSE /\ timeRemaining' = [timeRemaining EXCEPT ![t] = TickValue(timeRemaining[t])]
          /\ UNCHANGED <<selectedElection, currentStep, votes, isSubmitting, votingSession,
                         errors, showConfirmation, isCompleted, exit>>
  /\ UNCHANGED <<storageVars, tabUser, completePending, nextId, issued, entrySnap>>

\* the callback fires timeRemaining times in a row, the last firing expiring
\* the session.  No handler but the callback reads timeRemaining and a firing
\* that does not expire writes nothing else, so every run of the program
\* differs from one where the firings come in a row only in timeRemaining.
TimerRunOut(t) ==
  /\ Mounted(t)
  /\ TickValues(timeRemaining[t], timeRemaining[t]) = 0
  /\ CloseFlow(t, IF isCompleted[t] THEN "completed" ELSE "expired")
  /\ UNCHANGED <<storageVars, tabUser, completePending, nextId, issued, entrySnap>>

\* the setTimeout of a successful submitVotes fires: onComplete of the
\* dashboard (setSelectedElection(null), loadElections, refresh of the
\* stored current user).  The timeout is not cleared when the flow unmounts.
OnComplete(t) ==
  /\ completePending[t]
  /\ completePending' = [completePending EXCEPT ![t] = FALSE]
  /\ CloseFlow(t, IF isCompleted[t] THEN "completed"
                  ELSE IF Mounted(t) THEN "cancelled" ELSE exit[t])
  /\ currentUser' = IF GetUserByEmail(users, tabUser[t].email) # NoUser
                    THEN GetUserByEmail(users, tabUser[t].email)
                    ELSE currentUser
  /\ UNCHANGED <<users, elections, allVotes, sessions, logs, tabUser, nextId, issued, entrySnap>>

(***************************************************************************)
(* Spec: two tabs over the same storage, both elections, every storage     *)
(* write succeeds; the countdown of a flow runs out in one step.           *)
(***************************************************************************)
Next ==
  \/ \E t \in Tabs : \E i \in 1..Len(elections) : EnterVoting(t, i) /\ UNCHANGED entrySnap /\ UNCHANGED otherVars
  \/ \E t \in Tabs : \E c \in {"c1", "c2", "c3", "c4"} : HandleVoteChange(t, c) /\ UNCHANGED otherVars
  \/ \E t \in Tabs : HandleNext(t) /\ UNCHANGED otherVars
  \/ \E t \in Tabs : HandlePrevious(t) /\ UNCHANGED otherVars
  \/ \E t \in Tabs : ReviewVotes(t) /\ UNCHANGED otherVars
  \/ \E t \in Tabs : CancelVoting(t) /\ UNCHANGED otherVars
  \/ \E t \in Tabs : SubmitVotes(t, SubmitWrites) /\ UNCHANGED otherVars
  \/ \E t \in Tabs : TimerRunOut(t) /\ UNCHANGED otherVars
  \/ \E t \in Tabs : OnComplete(t) /\ UNCHANGED otherVars

Spec == Init /\ [][Next]_vars

(***************************************************************************)
(* SpecRetry: one tab, both elections; a storage write of submitVotes may  *)
(* throw, after which the user may submit again; the collections as they   *)
(* were before the flow was entered are kept as history.                   *)
(***************************************************************************)
InitSingle == Init /\ tabUser["t2"].id = "v2"

NextRetry ==
  \/ \E i \in 1..Len(elections) : EnterVoting("t1", i) /\ TakeSnap("t1") /\ UNCHANGED otherVars
  \/ \E c \in {"c1", "c2", "c3", "c4"} : HandleVoteChange("t1", c) /\ UNCHANGED otherVars
  \/ HandleNext("t1") /\ UNCHANGED otherVars
  \/ HandlePrevious("t1") /\ UNCHANGED otherVars
  \/ ReviewVotes("t1") /\ UNCHANGED otherVars
  \/ CancelVoting("t1") /\ UNCHANGED otherVars
  \/ \E k \in 0..SubmitWrites : SubmitVotes("t1", k) /\ UNCHANGED otherVars
  \/ TimerRunOut("t1") /\ UNCHANGED otherVars
  \/ OnComplete("t1") /\ UNCHANGED otherVars

SpecRetry == InitSingle /\ [][NextRetry]_vars

(***************************************************************************)
(* SpecTimer: one tab voting in the one-position election, every firing of *)
(* the countdown a step of its own.                                        *)
(***************************************************************************)
NextTimer ==
  \/ EnterVoting("t1", 2) /\ UNCHANGED entrySnap /\ UNCHANGED otherVars
  \/ \E c \in {"c3", "c4"} : HandleVoteChange("t1", c) /\ UNCHANGED otherVars
  \/ HandleNext("t1") /\ UNCHANGED otherVars
  \/ ReviewVotes("t1") /\ UNCHANGED otherVars
  \/ CancelVoting("t1") /\ UNCHANGED otherVars
  \/ SubmitVotes("t1", SubmitWrites) /\ UNCHANGED otherVars
  \/ TimerTick("t1") /\ UNCHANGED otherVars
  \/ OnComplete("t1") /\ UNCHANGED otherVars

SpecTimer == InitSingle /\ [][NextTimer]_vars

(***************************************************************************)
(* ResultsViewer: calculateResults and viewResults.                        *)
(***************************************************************************)
\* storage.getVotesByElection: votes.filter(vote => vote.electionId === electionId)
RECURSIVE GetVotesByElection(_, _)
GetVotesByElection(vs, electionId) ==
  IF vs = <<>> THEN <<>>
  ELSE (IF Head(vs).electionId = electionId THEN <<Head(vs)>> ELSE <<>>)
         \o GetVotesByElection(Tail(vs), electionId)

\* votes.filter(v => v.positionId === position.id)
RECURSIVE PositionVotes(_, _)
PositionVotes(vs, positionId) ==
  IF vs = <<>> THEN <<>>
  ELSE (IF Head(vs).positionId = positionId THEN <<Head(vs)>> ELSE <<>>)
         \o PositionVotes(Tail(vs), positionId)

\* positionVotes.filter(v => v.candidateId === candidate.id).length
CandidateVotes(vs, candidateId) ==
  Cardinality({i \in 1..Len(vs) : vs[i].candidateId = candidateId})

\* a count of participants that counts Vote records instead of distinct tokens
UniqueVotersByRecord(vs) == Len(vs)

\* new Set(votes.map(v => v.voterToken)).size
UniqueVoters(vs) == Cardinality({vs[i].voterToken : i \in 1..Len(vs)})

\* storage.getUsers().filter(u => u.role === 'voter').length
TotalRegisteredVoters(us) == Cardinality({i \in 1..Len(us) : us[i].role = "voter"})

\* whole > 0 ? (part / whole) * 100 : 0, kept in thousandths of a percent
\* (the source computes a double; the page shows it with toFixed(1))
Percentage(part, whole) == IF whole > 0 THEN (part * 100000) \div whole ELSE 0

\* one entry of candidateResults
CandidateResult(candidateId, positionVotes) ==
  [candidateId |-> candidateId,
   voteCount |-> CandidateVotes(positionVotes, candidateId),
   percentage |-> Percentage(CandidateVotes(positionVotes, candidateId), Len(positionVotes))]

\* a sort that puts a candidate in front of those with the same count
RECURSIVE InsertByCountInFront(_, _)
InsertByCountInFront(sorted, x) ==
  IF sorted = <<>> THEN <<x>>
  ELSE IF Head(sorted).voteCount > x.voteCount
       THEN <<Head(sorted)>> \o InsertByCountInFront(Tail(sorted), x)
       ELSE <<x>> \o sorted

\* the place of x in a list sorted by (a, b) => b.voteCount - a.voteCount:
\* behind every entry whose count is not smaller (Array.prototype.sort is stable)
RECURSIVE InsertByCount(_, _)
InsertByCount(sorted, x) ==
  IF sorted = <<>> THEN <<x>>
  ELSE IF Head(sorted).voteCount >= x.voteCount
       THEN <<Head(sorted)>> \o InsertByCount(Tail(sorted), x)
       ELSE <<x>> \o sorted

\* candidateResults.sort((a, b) => b.voteCount - a.voteCount)
RECURSIVE SortByCount(_)
SortByCount(list) ==
  IF list = <<>> THEN <<>>
  ELSE InsertByCount(SortByCount(SubSeq(list, 1, Len(list) - 1)), list[Len(list)])

\* one entry of positionResults
PositionResult(position, vs) ==
  LET positionVotes == PositionVotes(vs, position.id)
  IN  [positionId |-> position.id,
       candidates |-> SortByCount([i \in 1..Len(position.candidates) |->
                        CandidateResult(position.candidates[i], positionVotes)]),
       totalVotes |-> Len(positionVotes)]

\* a hash that also covers the number of stored results
GenerateElectionVerificationHashSalted(r) ==
  [algorithm |-> "sha256", of |-> r, salt |-> Len(savedResults)]

\* generateElectionVerificationHash: SHA256(JSON.stringify(results) + SECRET_KEY),
\* a function of the results object alone
GenerateElectionVerificationHash(r) == [algorithm |-> "sha256", of |-> r]

\* the results object before the hash is filled in
UnhashedResults(election, vs, us) ==
  LET electionVotes == GetVotesByElection(vs, election.id)
  IN  [electionId |-> election.id,
       positions |-> [i \in 1..Len(election.positions) |->
                        PositionResult(election.positions[i], electionVotes)],
       totalParticipants |-> UniqueVoters(electionVotes),
       turnoutPercentage |-> Percentage(UniqueVoters(electionVotes), TotalRegisteredVoters(us)),
       verificationHash |-> Unset]

\* calculateResults(election)
CalculateResults(election, vs, us) ==
  [UnhashedResults(election, vs, us) EXCEPT
     !.verificationHash = GenerateElectionVerificationHash(UnhashedResults(election, vs, us))]

\* the results page: isWinner = index === 0 && candidate.voteCount > 0
IsWinner(candidates, index) == index = 1 /\ candidates[index].voteCount > 0

\* viewResults that pushes without looking for an entry of the election
SavedResultsPushed(saved, r) == Append(saved, r)

\* viewResults: existingIndex = findIndex(r => r.electionId === election.id);
\* savedResults[existingIndex] = calculatedResults, or push
SavedResultsWith(saved, r) ==
  IF \E i \in 1..Len(saved) : saved[i].electionId = r.electionId
  THEN LET existingIndex == CHOOSE i \in 1..Len(saved) :
                              /\ saved[i].electionId = r.electionId
                              /\ \A j \in 1..(i - 1) : saved[j].electionId # r.electionId
       IN  [saved EXCEPT ![existingIndex] = r]
  ELSE Append(saved, r)

\* viewResults(election) on the i-th election of the list
ViewResults(i) ==
  /\ viewCount < MaxViews
  /\ results' = CalculateResults(elections[i], allVotes, users)
  /\ savedResults' = SavedResultsWith(savedResults, CalculateResults(elections[i], allVotes, users))
  /\ viewCount' = viewCount + 1
  /\ UNCHANGED <<storageVars, tabUser, flowVars, completePending, nextId, issued, exit, entrySnap,
                 mgmtElections, loadedTabs, storedKey, storedItem, got, extraVars>>

\* the elections whose results are viewed: three candidates and one candidate
\* in the first, and a second election whose votes must not be counted
TallyElections ==
  <<Election("r1", <<Position("q1", <<"a", "b", "c">>), Position("q2", <<"d">>)>>),
    Election("r2", <<Position("q3", <<"e">>)>>)>>

\* the Vote records the stored collection is drawn from
TallyVotes ==
  {Vote("r1", "q1", "a", 1, 1), Vote("r1", "q1", "a", 2, 1), Vote("r1", "q1", "b", 3, 1),
   Vote("r1", "q1", "c", 1, 1), Vote("r1", "q2", "d", 2, 1), Vote("r2", "q3", "e", 4, 1)}

\* the sequences over S of length at most n
SeqsUpTo(S, n) == UNION {[1..k -> S] : k \in 0..n}

\* the state of a tab that shows no voting flow, and the history of none
IdleInit ==
  /\ selectedElection = [t \in Tabs |-> NoElection]
  /\ currentStep = [t \in Tabs |-> 0]
  /\ votes = [t \in Tabs |-> NoVotes]
  /\ isSubmitting = [t \in Tabs |-> FALSE]
  /\ votingSession = [t \in Tabs |-> NoSession]
  /\ errors = [t \in Tabs |-> <<>>]
  /\ showConfirmation = [t \in Tabs |-> FALSE]
  /\ timeRemaining = [t \in Tabs |-> SessionSeconds]
  /\ isCompleted = [t \in Tabs |-> FALSE]
  /\ completePending = [t \in Tabs |-> FALSE]
  /\ nextId = 1
  /\ issued = <<>>
  /\ exit = [t \in Tabs |-> "none"]
  /\ entrySnap = [t \in Tabs |-> NoSnap]

(***************************************************************************)
(* SpecResults: the results page over a stored Votes collection of at most *)
(* MaxTally records and zero to two registered voters.                     *)
(***************************************************************************)
InitResults ==
  /\ users \in {<<NewUser("admin", "admin")>>,
                <<NewUser("admin", "admin"), NewUser("v1", "voter")>>,
                <<NewUser("admin", "admin"), NewUser("v1", "voter"), NewUser("v2", "voter")>>}
  /\ elections = TallyElections
  /\ allVotes \in SeqsUpTo(TallyVotes, MaxTally)
  /\ sessions = <<>>
  /\ logs = <<>>
  /\ tabUser = [t \in Tabs |-> NewUser("admin", "admin")]
  /\ currentUser = NewUser("admin", "admin")
  /\ IdleInit
  /\ OtherInit

NextResults ==
  \/ \E i \in 1..Len(elections) : ViewResults(i)

SpecResults == InitResults /\ [][NextResults]_vars

(***************************************************************************)
(* ElectionManagement: the administrator's list of elections.              *)
(***************************************************************************)
\* elections.filter(e => e.id !== electionId)
RECURSIVE ElectionsWithout(_, _)
ElectionsWithout(els, electionId) ==
  IF els = <<>> THEN <<>>
  ELSE (IF Head(els).id # electionId THEN <<Head(els)>> ELSE <<>>)
         \o ElectionsWithout(Tail(els), electionId)

\* a delete that leaves the votes of the election in place
VotesKept(vs, electionId) == vs

\* votes.filter(v => v.electionId !== electionId)
RECURSIVE VotesWithout(_, _)
VotesWithout(vs, electionId) ==
  IF vs = <<>> THEN <<>>
  ELSE (IF Head(vs).electionId # electionId THEN <<Head(vs)>> ELSE <<>>)
         \o VotesWithout(Tail(vs), electionId)

\* the mount effect of ElectionManagement: loadElections
LoadElections ==
  /\ mgmtElections' = elections
  /\ UNCHANGED <<storageVars, tabUser, flowVars, completePending, nextId, issued, exit, entrySnap,
                 results, savedResults, viewCount, loadedTabs, storedKey, storedItem, got,
                 extraVars>>

\* deleteElection on the i-th election of the administrator's list, the
\* confirm dialog answered with confirmed.  The list saved is the component's
\* elections state, the votes are re-read from storage.
DeleteElection(i, confirmed) ==
  /\ i \in 1..Len(mgmtElections)
  /\ IF confirmed
     THEN /\ elections' = ElectionsWithout(mgmtElections, mgmtElections[i].id)
          /\ allVotes' = VotesWithout(allVotes, mgmtElections[i].id)
          /\ logs' = AddSecurityLog(logs,
               SecurityLog("admin_action", "medium", currentUser.id, mgmtElections[i].id))
          /\ mgmtElections' = elections'
          /\ UNCHANGED <<users, sessions, currentUser>>
     ELSE UNCHANGED <<storageVars, mgmtElections>>
  /\ UNCHANGED <<tabUser, flowVars, completePending, nextId, issued, exit, entrySnap,
                 results, savedResults, viewCount, loadedTabs, storedKey, storedItem, got,
                 extraVars>>

(***************************************************************************)
(* SpecAdmin: one voter's tab and the administrator's election list over   *)
(* the same storage; every storage write succeeds.                         *)
(***************************************************************************)
NextAdmin ==
  \/ \E i \in 1..Len(elections) : EnterVoting("t1", i) /\ UNCHANGED entrySnap /\ UNCHANGED otherVars
  \/ \E c \in {"c1", "c2", "c3", "c4"} : HandleVoteChange("t1", c) /\ UNCHANGED otherVars
  \/ HandleNext("t1") /\ UNCHANGED otherVars
  \/ CancelVoting("t1") /\ UNCHANGED otherVars
  \/ SubmitVotes("t1", SubmitWrites) /\ UNCHANGED otherVars
  \/ OnComplete("t1") /\ UNCHANGED otherVars
  \/ LoadElections
  \/ \E i \in 1..Len(mgmtElections) : \E confirmed \in BOOLEAN : DeleteElection(i, confirmed)

SpecAdmin == InitSingle /\ [][NextAdmin]_vars

(***************************************************************************)
(* Text: a string is the sequence of its characters.                       *)
(***************************************************************************)
LowerLetters == <<"a", "b", "c", "d", "e", "f", "g", "h", "i", "j", "k", "l", "m", "n", "o", "p", "q", "r", "s", "t", "u", "v", "w", "x", "y", "z">>
UpperLetters == <<"A", "B", "C", "D", "E", "F", "G", "H", "I", "J", "K", "L", "M", "N", "O", "P", "Q", "R", "S", "T", "U", "V", "W", "X", "Y", "Z">>
Digits == <<"0", "1", "2", "3", "4", "5", "6", "7", "8", "9">>
\* a complete <script ...>...</script> element, as one symbol
ScriptElement == "<script>x</script>"

\* the character sets of /[a-z]/, /[A-Z]/ and /\d/
LowerCaseChars == Range(LowerLetters)
UpperCaseChars == Range(UpperLetters)
DigitChars == Range(Digits)

\* the lower-case letter of each upper-case letter
LowerCaseOf ==
  [ch \in UpperCaseChars |-> LowerLetters[CHOOSE k \in 1..Len(UpperLetters) : UpperLetters[k] = ch]]

\* String.prototype.toLowerCase
ToLowerCase(str) ==
  [i \in 1..Len(str) |-> IF str[i] \in UpperCaseChars THEN LowerCaseOf[str[i]] ELSE str[i]]

\* String.prototype.trim
RECURSIVE Trim(_)
Trim(str) ==
  IF str = <<>> THEN <<>>
  ELSE IF Head(str) = " " THEN Trim(Tail(str))
  ELSE IF str[Len(str)] = " " THEN Trim(SubSeq(str, 1, Len(str) - 1))
  ELSE str

\* str.replace(/[...]/g, '') for the characters of drop
RECURSIVE Without(_, _)
Without(str, drop) ==
  IF str = <<>> THEN <<>>
  ELSE (IF Head(str) \in drop THEN <<>> ELSE <<Head(str)>>) \o Without(Tail(str), drop)

\* sanitizeInput: trim, then drop script elements, then drop < and >
SanitizeInput(input) == Without(Without(Trim(input), {ScriptElement}), {"<", ">"})

\* the characters of [a-zA-Z0-9._%+-]
LocalPartChars == LowerCaseChars \cup UpperCaseChars \cup DigitChars
                    \cup {".", "_", "%", "+", "-"}

\* the text @bnmit.in
AtBnmitIn == <<"@", "b", "n", "m", "i", "t", ".", "i", "n">>

\* the pattern without its anchors: a match anywhere in the text
ValidateBnmitEmailAnywhere(email) ==
  \E a \in 1..Len(email) : \E b \in a..Len(email) :
    /\ b + Len(AtBnmitIn) <= Len(email)
    /\ \A i \in a..b : email[i] \in LocalPartChars
    /\ SubSeq(email, b + 1, b + Len(AtBnmitIn)) = AtBnmitIn

\* validateBnmitEmail: /^[a-zA-Z0-9._%+-]+@bnmit\.in$/.test(email)
ValidateBnmitEmail(email) ==
  /\ Len(email) > Len(AtBnmitIn)
  /\ SubSeq(email, Len(email) - Len(AtBnmitIn) + 1, Len(email)) = AtBnmitIn
  /\ \A i \in 1..(Len(email) - Len(AtBnmitIn)) : email[i] \in LocalPartChars

\* the characters of [!@#$%^&*(),.?":{}|<>]
SpecialChars == {"!", "@", "#", "$", "%", "^", "&", "*", "(", ")", ",", ".", "?", "\"", ":",
                 "{", "}", "|", "<", ">"}

\* a policy whose length test is off by one
ValidatePasswordSeven(password) ==
  (IF Len(password) < 7 THEN <<"length">> ELSE <<>>)
  \o (IF \E i \in 1..Len(password) : password[i] \in UpperCaseChars THEN <<>> ELSE <<"uppercase">>)
  \o (IF \E i \in 1..Len(password) : password[i] \in LowerCaseChars THEN <<>> ELSE <<"lowercase">>)
  \o (IF \E i \in 1..Len(password) : password[i] \in DigitChars THEN <<>> ELSE <<"number">>)
  \o (IF \E i \in 1..Len(password) : password[i] \in SpecialChars THEN <<>> ELSE <<"special">>)

\* validatePassword(password).errors; isValid is errors.length === 0
ValidatePassword(password) ==
  (IF Len(password) < 8 THEN <<"length">> ELSE <<>>)
  \o (IF \E i \in 1..Len(password) : password[i] \in UpperCaseChars THEN <<>> ELSE <<"uppercase">>)
  \o (IF \E i \in 1..Len(password) : password[i] \in LowerCaseChars THEN <<>> ELSE <<"lowercase">>)
  \o (IF \E i \in 1..Len(password) : password[i] \in DigitChars THEN <<>> ELSE <<"number">>)
  \o (IF \E i \in 1..Len(password) : password[i] \in SpecialChars THEN <<>> ELSE <<"special">>)

\* generateSecureHash: SHA512(data + SECRET_KEY), a function of data alone
GenerateSecureHash(data) == [algorithm |-> "sha512", of |-> data]

\* verifyPassword that accepts every password
VerifyPasswordAny(inputPassword, storedPassword) == TRUE

\* storage.verifyPassword(inputPassword, storedPassword)
VerifyPassword(inputPassword, storedPassword) == GenerateSecureHash(inputPassword) = storedPassword

(***************************************************************************)
(* Accounts: initializeAdminAccount, the App mount effect and the Login    *)
(* form.                                                                   *)
(***************************************************************************)
\* the emails typed into the form: the input has type="email", so the browser
\* submits well-formed addresses only, without blanks around them
EmailInputs ==
  {<<"a", "@", "b", "n", "m", "i", "t", ".", "i", "n">>,
   <<"A", "@", "B", "N", "M", "I", "T", ".", "I", "N">>,
   <<"b", "@", "b", "n", "m", "i", "t", ".", "i", "n">>,
   <<"B", "@", "b", "n", "m", "i", "t", ".", "i", "n">>,
   <<"a", "d", "m", "i", "n", "@", "b", "n", "m", "i", "t", ".", "i", "n">>,
   <<"a", "@", "b", "n", "m", "i", "t", ".", "c", "o", "m">>,
   <<"a", "@", "g", "m", "a", "i", "l", ".", "c", "o", "m">>,
   <<"a", "@", "b", "n", "m", "i", "t", ".", "i", "n", "x">>,
   <<"a", "@", "x", "b", "n", "m", "i", "t", ".", "i", "n">>,
   <<"a", "@", "b", "n", "m", "i", "t", ".", "i", "n", ".", "c", "o", "m">>}

\* the passwords typed into the form
PasswordInputs ==
  {<<"G", "O", "O", "D", "P", "a", "s", "s", "1", "!">>,
   <<"s", "h", "o", "r", "t", "1", "!">>,
   <<"a", "l", "l", "l", "o", "w", "e", "r", "c", "a", "s", "e", "1", "!">>,
   <<"G", "O", "O", "D", "P", "A", "S", "S", "1", "!">>,
   <<"G", "o", "o", "d", "P", "a", "s", "s", "!", "!">>,
   <<"G", "o", "o", "d", "P", "a", "s", "s", "1", "2">>,
   <<"G", "o", "o", "d", "p", "1", "!">>}

\* the confirmations typed into the form: each equal to one password and
\* different from all others
ConfirmInputs == {<<"G", "O", "O", "D", "P", "a", "s", "s", "1", "!">>,
                  <<"G", "o", "o", "d", "p", "1", "!">>}

\* the password of the administrator's account
AdminPassword == <<"V", "o", "t", "e", "B", "N", "M", "I", "T", "2", "0", "2", "4", "!", "A", "d", "m", "i", "n">>

\* the ids of the users registered first, second, ...: Date.now().toString()
UserIds == <<"v1", "v2", "v3", "v4">>

\* a user record that always gets the administrator's role
AccountAsAdmin(id, email, password, role) ==
  [id |-> id, email |-> email, role |-> "admin",
   hasVoted |-> [e \in ElectionIds |-> FALSE],
   votingTokens |-> [e \in ElectionIds |-> NoToken],
   password |-> GenerateSecureHash(password)]

\* a user record as the Login form and initializeAdminAccount build it
Account(id, email, password, role) ==
  [id |-> id, email |-> email, role |-> role,
   hasVoted |-> [e \in ElectionIds |-> FALSE],
   votingTokens |-> [e \in ElectionIds |-> NoToken],
   password |-> GenerateSecureHash(password)]

\* initializeAdminAccount that pushes the administrator without looking for one
InitializeAdminAccountAlways(us) ==
  Append(us, Account("admin", <<"a", "d", "m", "i", "n", "@", "b", "n", "m", "i", "t", ".", "i", "n">>, AdminPassword, "admin"))

\* storage.initializeAdminAccount: the users it saves (or leaves as they are)
InitializeAdminAccount(us) ==
  IF \E i \in 1..Len(us) : us[i].role = "admin"
  THEN us
  ELSE Append(us, Account("admin", <<"a", "d", "m", "i", "n", "@", "b", "n", "m", "i", "t", ".", "i", "n">>, AdminPassword, "admin"))

\* the tab shows the Login form
LoggedOut(t) == tabUser[t].role = "none"

\* loading the application in a tab: the module's initializeAdminAccount call,
\* then the App mount effect (again initializeAdminAccount, then the stored
\* current user becomes the tab's user); an open voting flow is gone
LoadApp(t) ==
  /\ users' = InitializeAdminAccount(InitializeAdminAccount(users))
  /\ tabUser' = [tabUser EXCEPT ![t] = currentUser]
  /\ loadedTabs' = loadedTabs \cup {t}
  /\ completePending' = [completePending EXCEPT ![t] = FALSE]
  /\ CloseFlow(t, IF Mounted(t) THEN "reloaded" ELSE exit[t])
  /\ UNCHANGED <<elections, allVotes, sessions, logs, currentUser, nextId, issued, entrySnap,
                 results, savedResults, viewCount, mgmtElections,
                 storedKey, storedItem, got, extraVars>>

\* App.handleLogin: setCurrentUser(user); storage.setCurrentUser(user)
HandleLogin(t, user) ==
  /\ tabUser' = [tabUser EXCEPT ![t] = user]
  /\ currentUser' = user

\* Login.handleSubmit with isLogin
Login(t, emailInput, password) ==
  LET email == SanitizeInput(ToLowerCase(emailInput))
      user == GetUserByEmail(users, email)
  IN  /\ t \in loadedTabs /\ LoggedOut(t)
      /\ IF ~ValidateBnmitEmail(email)
         THEN UNCHANGED <<logs, tabUser, currentUser>>
         ELSE /\ Len(logs) < MaxLogs
              /\ IF user = NoUser
                 THEN /\ logs' = AddSecurityLog(logs,
                           SecurityLog("invalid_access", "medium", NoUser.id, NoElectionId))
                      /\ UNCHANGED <<tabUser, currentUser>>
                 ELSE IF ~VerifyPassword(password, user.password)
                 THEN /\ logs' = AddSecurityLog(logs,
                           SecurityLog("invalid_access", "high", user.id, NoElectionId))
                      /\ UNCHANGED <<tabUser, currentUser>>
                 ELSE /\ logs' = AddSecurityLog(logs,
                           SecurityLog("login", "low", user.id, NoElectionId))
                      /\ HandleLogin(t, user)
      /\ UNCHANGED <<users, elections, allVotes, sessions, flowVars, completePending, nextId,
                     issued, exit, entrySnap, otherVars>>

\* Login.handleSubmit with !isLogin (registration)
Register(t, emailInput, password, confirmPassword) ==
  LET email == SanitizeInput(ToLowerCase(emailInput))
      newUser == Account(UserIds[Cardinality({i \in 1..Len(users) : users[i].role = "voter"}) + 1],
                         email, password, "voter")
  IN  /\ t \in loadedTabs /\ LoggedOut(t)
      /\ IF \/ ~ValidateBnmitEmail(email)
            \/ Len(ValidatePassword(password)) > 0
            \/ password # confirmPassword
            \/ GetUserByEmail(users, email) # NoUser
         THEN UNCHANGED <<users, logs, tabUser, currentUser>>
         ELSE /\ Len(logs) < MaxLogs
              /\ Cardinality({i \in 1..Len(users) : users[i].role = "voter"}) < MaxRegistered
              /\ users' = Append(users, newUser)
              /\ logs' = AddSecurityLog(logs,
                   SecurityLog("login", "low", newUser.id, NoElectionId))
              /\ HandleLogin(t, newUser)
      /\ UNCHANGED <<elections, allVotes, sessions, flowVars, completePending, nextId,
                     issued, exit, entrySnap, otherVars>>

\* App.handleLogout: setCurrentUser(null); storage.setCurrentUser(null)
HandleLogout(t) ==
  /\ t \in loadedTabs /\ ~LoggedOut(t) /\ ~Mounted(t)
  /\ tabUser' = [tabUser EXCEPT ![t] = NoUser]
  /\ currentUser' = NoUser
  /\ UNCHANGED <<users, elections, allVotes, sessions, logs, flowVars, completePending, nextId,
                 issued, exit, entrySnap, otherVars>>

\* the Dashboard of a voter is shown in the tab: elections can be entered
MayVote(t) == t \in loadedTabs /\ tabUser[t].role = "voter"

(***************************************************************************)
(* SpecAccounts: two tabs of a browser with empty storage; the application *)
(* is loaded, users register, log in and out.                              *)
(***************************************************************************)
InitAccounts ==
  /\ users = <<>>
  /\ elections = <<ElectionE2>>
  /\ allVotes = <<>>
  /\ sessions = <<>>
  /\ logs = <<>>
  /\ currentUser = NoUser
  /\ tabUser = [t \in Tabs |-> NoUser]
  /\ IdleInit
  /\ results = NoResults
  /\ savedResults = <<>>
  /\ viewCount = 0
  /\ mgmtElections = <<>>
  /\ loadedTabs = {}
  /\ NoRead
  /\ ExtraInit

NextAccounts ==
  \/ \E t \in Tabs : LoadApp(t)
  \/ \E t \in Tabs : \E e \in EmailInputs : \E p \in PasswordInputs : Login(t, e, p)
  \/ \E t \in Tabs : \E e \in EmailInputs : \E p \in PasswordInputs : \E c \in ConfirmInputs : Register(t, e, p, c)
  \/ \E t \in Tabs : HandleLogout(t)

SpecAccounts == InitAccounts /\ [][NextAccounts]_vars

(***************************************************************************)
(* SpecLifecycle: the same two tabs with a few form inputs, the tabs being *)
(* reloaded at any moment and the logged-in voters voting.                 *)
(***************************************************************************)
LifecycleEmails == {<<"a", "@", "b", "n", "m", "i", "t", ".", "i", "n">>,
                    <<"b", "@", "b", "n", "m", "i", "t", ".", "i", "n">>,
                    <<"a", "d", "m", "i", "n", "@", "b", "n", "m", "i", "t", ".", "i", "n">>,
                    <<"a", "@", "g", "m", "a", "i", "l", ".", "c", "o", "m">>}

LifecyclePasswords == {<<"G", "O", "O", "D", "P", "a", "s", "s", "1", "!">>, <<"s", "h", "o", "r", "t", "1", "!">>}

NextLifecycle ==
  \/ \E t \in Tabs : LoadApp(t)
  \/ \E t \in Tabs : \E e \in LifecycleEmails : \E p \in LifecyclePasswords : Login(t, e, p)
  \/ \E t \in Tabs : \E e \in LifecycleEmails : \E p \in LifecyclePasswords : Register(t, e, p, p)
  \/ \E t \in Tabs : HandleLogout(t)
  \/ \E t \in Tabs : MayVote(t) /\ EnterVoting(t, 1) /\ UNCHANGED entrySnap /\ UNCHANGED otherVars
  \/ \E t \in Tabs : \E c \in {"c3", "c4"} : HandleVoteChange(t, c) /\ UNCHANGED otherVars
  \/ \E t \in Tabs : HandleNext(t) /\ UNCHANGED otherVars
  \/ \E t \in Tabs : CancelVoting(t) /\ UNCHANGED otherVars
  \/ \E t \in Tabs : SubmitVotes(t, SubmitWrites) /\ UNCHANGED otherVars
  \/ \E t \in Tabs : OnComplete(t) /\ UNCHANGED otherVars

SpecLifecycle == InitAccounts /\ [][NextLifecycle]_vars

(***************************************************************************)
(* SecureStorage: reading a localStorage item.                             *)
(***************************************************************************)
\* the localStorage keys of the six collections
CollectionKeys == {"voting_users", "voting_elections", "voting_votes", "voting_sessions",
                   "voting_security_logs", "voting_results"}

\* the key of getCurrentUser
CurrentUserKey == "voting_current_user"

\* ENCRYPTION_KEY, and any other passphrase
EncryptionKey == "secure-voting-encryption-key-2024"
OtherKey == "another-key"

\* localStorage.getItem(key): null, the empty string, a string that is no
\* ciphertext, or a ciphertext of a JSON text under some passphrase
Absent == [kind |-> "absent"]
EmptyString == [kind |-> "empty"]
Malformed == [kind |-> "malformed"]
Ciphertext(key, json) == [kind |-> "ciphertext", key |-> key, json |-> json]

\* encryptSensitiveData: AES under ENCRYPTION_KEY; the ciphertext is known by
\* the passphrase and the text it decrypts to
EncryptSensitiveData(data) == Ciphertext(EncryptionKey, data)

\* SecureStorage.encrypt: encryptSensitiveData(JSON.stringify(data))
Encrypt(data) == EncryptSensitiveData(JsonStringify(data))

\* the items a key can hold
StoredItems ==
  {Absent, EmptyString, Malformed,
   Ciphertext(OtherKey, JsonStringify(JsonArray(<<JsonObject("x")>>))),
   Ciphertext(OtherKey, JsonStringify(JsonObject("v1"))),
   Encrypt(JsonNull), Encrypt(JsonArray(<<>>)), Encrypt(JsonArray(<<JsonObject("x")>>)),
   Encrypt(JsonArray(<<JsonObject("x"), JsonObject("y")>>)), Encrypt(JsonObject("v1"))}

\* the item cannot be decrypted with ENCRYPTION_KEY
Undecryptable(item) ==
  item.kind = "malformed" \/ (item.kind = "ciphertext" /\ item.key # EncryptionKey)

\* decryptSensitiveData and JSON.parse on the item: the bytes of an
\* undecryptable item are arbitrary, so toString(Utf8) throws, or gives the
\* empty text or a text that is no JSON, on which JSON.parse throws
DecryptOutcomes(item) ==
  IF Undecryptable(item) THEN {"utf8_throws", "empty_text", "garbled_text"} ELSE {"parsed"}

\* a thrown error leaving a call
Thrown == [type |-> "thrown"]

\* decrypt without its try/catch
DecryptUncaught(item, outcome) == IF outcome = "parsed" THEN JsonParse(item.json) ELSE Thrown

\* SecureStorage.decrypt: try { JSON.parse(decryptSensitiveData(...)) } catch { null }
Decrypt(item, outcome) == IF outcome = "parsed" THEN JsonParse(item.json) ELSE JsonNull

\* the item is a truthy string (encrypted ? ... : ...)
Truthy(item) == item.kind \notin {"absent", "empty"}

\* getUsers, getElections, getVotes, getVotingSessions, getSecurityLogs,
\* getElectionResults: encrypted ? this.decrypt(encrypted) || [] : []
GetCollection(item, outcome) ==
  IF Truthy(item)
  THEN IF Decrypt(item, outcome) = JsonNull THEN JsonArray(<<>>) ELSE Decrypt(item, outcome)
  ELSE JsonArray(<<>>)

\* getCurrentUser: encrypted ? this.decrypt(encrypted) : null
GetCurrentUser(item, outcome) == IF Truthy(item) THEN Decrypt(item, outcome) ELSE JsonNull

\* the getter of the key is called
Get ==
  /\ \E outcome \in DecryptOutcomes(storedItem) :
       got' = [outcome |-> IF Truthy(storedItem) THEN outcome ELSE "not_decrypted",
               value |-> IF storedKey = CurrentUserKey
                         THEN GetCurrentUser(storedItem, outcome)
                         ELSE GetCollection(storedItem, outcome)]
  /\ UNCHANGED <<storageVars, flowVars, tabUser, completePending, nextId, issued, exit, entrySnap,
                 results, savedResults, viewCount, mgmtElections, loadedTabs,
                 storedKey, storedItem, extraVars>>

(***************************************************************************)
(* SpecStorage: any item under any key, read by the getter of the key.     *)
(***************************************************************************)
InitStorage ==
  /\ users = <<>>
  /\ elections = <<>>
  /\ allVotes = <<>>
  /\ sessions = <<>>
  /\ logs = <<>>
  /\ currentUser = NoUser
  /\ tabUser = [t \in Tabs |-> NoUser]
  /\ IdleInit
  /\ results = NoResults
  /\ savedResults = <<>>
  /\ viewCount = 0
  /\ mgmtElections = <<>>
  /\ loadedTabs = {}
  /\ storedKey \in CollectionKeys \cup {CurrentUserKey}
  /\ storedItem \in StoredItems
  /\ got = [outcome |-> "none"]
  /\ ExtraInit

NextStorage ==
  \/ Get

SpecStorage == InitStorage /\ [][NextStorage]_vars

(***************************************************************************)
(* SecureStorage: saving under a key and reading it back.                  *)
(***************************************************************************)
StorageKeys == CollectionKeys \cup {CurrentUserKey}

\* a User as initializeAdminAccount and the registration form build it
UserEntity(id, role, hasVoted, votingTokens) ==
  JsonObjectOf(<<Member("id", JsonString(id)), Member("email", JsonString(id \o "@bnmit.in")),
                 Member("password", JsonString("sha512")), Member("name", JsonString(id)),
                 Member("role", JsonString(role)), Member("isVerified", JsonBoolean("true")),
                 Member("hasVoted", JsonObjectOf(hasVoted)),
                 Member("votingTokens", JsonObjectOf(votingTokens)),
                 Member("registrationDate", JsonString("2024-01-01T00:00:00.000Z")),
                 Member("lastLogin", JsonString("2024-01-01T00:00:00.000Z"))>>)

AdminEntity == UserEntity("admin", "admin", <<>>, <<>>)
VotedEntity ==
  UserEntity("v1", "voter", <<Member("e1", JsonBoolean("true"))>>, <<Member("e1", JsonString("k1"))>>)

\* an Election as ElectionForm.handleSubmit builds it, with one position of one candidate
ElectionEntity(totalVotes) ==
  JsonObjectOf(<<Member("id", JsonString("e1")), Member("title", JsonString("Council")),
                 Member("description", JsonString("")),
                 Member("startDate", JsonString("2024-01-01T09:00")),
                 Member("endDate", JsonString("2024-01-02T09:00")),
                 Member("positions", JsonArray(<<
                   JsonObjectOf(<<Member("id", JsonString("p1")), Member("title", JsonString("President")),
                                  Member("description", JsonString("")),
                                  Member("maxVotes", JsonNumber("1")),
                                  Member("candidates", JsonArray(<<
                                    JsonObjectOf(<<Member("id", JsonString("c1")),
                                                   Member("name", JsonString("Asha")),
                                                   Member("position", JsonString("")),
                                                   Member("description", JsonString("")),
                                                   Member("manifesto", JsonString(""))>>)>>))>>)>>)),
                 Member("isActive", JsonBoolean("false")),
                 Member("totalVotes", JsonNumber(totalVotes)),
                 Member("createdBy", JsonString("admin")),
                 Member("createdAt", JsonString("2024-01-01T00:00:00.000Z")),
                 Member("cryptographicHash", JsonString("sha256"))>>)

\* a Vote as submitVotes builds it
VoteEntity ==
  JsonObjectOf(<<Member("id", JsonString("vote_1_p1")), Member("electionId", JsonString("e1")),
                 Member("positionId", JsonString("p1")), Member("candidateId", JsonString("c1")),
                 Member("voterToken", JsonString("k1")),
                 Member("timestamp", JsonString("2024-01-01T10:00:00.000Z")),
                 Member("cryptographicHash", JsonString("sha256")),
                 Member("verified", JsonBoolean("true"))>>)

\* a VotingSession as createVotingSession builds it
SessionEntity(isActive) ==
  JsonObjectOf(<<Member("sessionId", JsonString("s1")), Member("voterToken", JsonString("k1")),
                 Member("electionId", JsonString("e1")), Member("isActive", JsonBoolean(isActive)),
                 Member("expiresAt", JsonString("2024-01-01T10:30:00.000Z")),
                 Member("ipAddress", JsonString("localhost")),
                 Member("userAgent", JsonString("Mozilla/5.0"))>>)

\* a SecurityLog as addSecurityLog builds it from the entry of deleteElection:
\* userId is storage.getCurrentUser()?.id, undefined when no current user is stored
LogEntity(userId) ==
  JsonObjectOf(<<Member("type", JsonString("admin_action")),
                 Member("message", JsonString("Election deleted: Council")),
                 Member("userId", userId), Member("electionId", JsonString("e1")),
                 Member("ipAddress", JsonString("localhost")),
                 Member("severity", JsonString("medium")),
                 Member("id", JsonString("1704103200000")),
                 Member("timestamp", JsonString("2024-01-01T10:00:00.000Z"))>>)

\* an ElectionResults as calculateResults builds it
ResultsEntity ==
  JsonObjectOf(<<Member("electionId", JsonString("e1")),
                 Member("positions", JsonArray(<<
                   JsonObjectOf(<<Member("positionId", JsonString("p1")),
                                  Member("positionTitle", JsonString("President")),
                                  Member("candidates", JsonArray(<<
                                    JsonObjectOf(<<Member("candidateId", JsonString("c1")),
                                                   Member("candidateName", JsonString("Asha")),
                                                   Member("voteCount", JsonNumber("1")),
                                                   Member("percentage", JsonNumber("100"))>>)>>)),
                                  Member("totalVotes", JsonNumber("1"))>>)>>)),
                 Member("totalParticipants", JsonNumber("1")),
                 Member("turnoutPercentage", JsonNumber("33.333333333333336")),
                 Member("verificationHash", JsonString("sha256"))>>)

\* the values the save of a key is called with
Saved(key) ==
  CASE key = "voting_users" ->
         {JsonArray(<<AdminEntity>>), JsonArray(<<AdminEntity, VotedEntity>>)}
    [] key = "voting_elections" ->
         {JsonArray(<<>>), JsonArray(<<ElectionEntity("1")>>)}
    [] key = "voting_votes" -> {JsonArray(<<VoteEntity>>)}
    [] key = "voting_sessions" -> {JsonArray(<<SessionEntity("false")>>)}
    [] key = "voting_security_logs" ->
         {JsonArray(<<>>), JsonArray(<<LogEntity(JsonString("admin"))>>),
          JsonArray(<<LogEntity(Undefined)>>)}
    [] key = "voting_results" -> {JsonArray(<<ResultsEntity>>)}
    [] key = CurrentUserKey -> {JsonNull, VotedEntity}

\* saveUsers, saveElections, saveVotes, saveVotingSessions, saveSecurityLogs,
\* saveElectionResults: localStorage.setItem(key, this.encrypt(data));
\* setCurrentUser: the same for a user, removeItem for null
Save(key, data) ==
  /\ localStorage' =
       [localStorage EXCEPT ![key] =
          IF key = CurrentUserKey /\ data = JsonNull THEN Absent ELSE Encrypt(data)]
  /\ UNCHANGED <<storageVars, flowVars, tabUser, completePending, nextId, issued, exit, entrySnap,
                 results, savedResults, viewCount, mgmtElections, loadedTabs,
                 storedKey, storedItem, got, now, voteTimes, created, monitorLogs, hashCalls>>

\* what the getter of the key gives for an item and an outcome of its decryption
Getter(key, item, outcome) ==
  IF key = CurrentUserKey THEN GetCurrentUser(item, outcome) ELSE GetCollection(item, outcome)

\* getUsers, getElections, getVotes, getVotingSessions, getSecurityLogs,
\* getElectionResults, getCurrentUser on the stored items
GetKey(key) ==
  /\ \E outcome \in DecryptOutcomes(localStorage[key]) :
       got' = [outcome |-> IF Truthy(localStorage[key]) THEN outcome ELSE "not_decrypted",
               key |-> key,
               value |-> Getter(key, localStorage[key], outcome)]
  /\ UNCHANGED <<storageVars, flowVars, tabUser, completePending, nextId, issued, exit, entrySnap,
                 results, savedResults, viewCount, mgmtElections, loadedTabs,
                 storedKey, storedItem, now, voteTimes, created, monitorLogs, localStorage, hashCalls>>

(***************************************************************************)
(* SpecRoundTrip: the seven keys, saved and read in any order.  The module *)
(* has run initializeAdminAccount on an empty localStorage.                *)
(***************************************************************************)
InitRoundTrip ==
  /\ users = <<>>
  /\ elections = <<>>
  /\ allVotes = <<>>
  /\ sessions = <<>>
  /\ logs = <<>>
  /\ currentUser = NoUser
  /\ tabUser = [t \in Tabs |-> NoUser]
  /\ IdleInit
  /\ results = NoResults
  /\ savedResults = <<>>
  /\ viewCount = 0
  /\ mgmtElections = <<>>
  /\ loadedTabs = {}
  /\ storedKey = "voting_users"
  /\ storedItem = Absent
  /\ got = [outcome |-> "none"]
  /\ now = 1
  /\ voteTimes = <<>>
  /\ created = {}
  /\ monitorLogs = <<>>
  /\ localStorage = [key \in StorageKeys |->
                       IF key = "voting_users" THEN Encrypt(JsonArray(<<AdminEntity>>)) ELSE Absent]
  /\ hashCalls = <<>>

NextRoundTrip ==
  \/ \E key \in StorageKeys : \E data \in Saved(key) : Save(key, data)
  \/ \E key \in StorageKeys : GetKey(key)

SpecRoundTrip == InitRoundTrip /\ [][NextRoundTrip]_vars

(***************************************************************************)
(* hashVote called on field tuples.                                        *)
(***************************************************************************)
\* the field values hashVote is called with: ids from Date.now().toString()
\* and the form's position counter, hexadecimal tokens, ISO timestamps
VoteFieldInputs ==
  [electionId : {<<"1", "7">>, <<"1", "8">>},
   positionId : {<<"1">>, <<"1", "7">>},
   candidateId : {<<"1", "7">>, <<"1", "9">>},
   voterToken : {<<"a", "f">>, <<"0", "c">>},
   timestamp : {<<"2", "0", "2", "4", "-", "0", "1">>, <<"2", "0", "2", "4", "-", "0", "2">>}]

\* a call of hashVote (submitVotes, verifyVoteIntegrity)
HashVoteCall(vote) ==
  /\ hashCalls' = (IF hashCalls = <<>> THEN <<>> ELSE <<hashCalls[Len(hashCalls)]>>)
                     \o <<[vote |-> vote, hash |-> HashVote(vote)]>>
  /\ UNCHANGED <<storageVars, flowVars, tabUser, completePending, nextId, issued, exit, entrySnap,
                 results, savedResults, viewCount, mgmtElections, loadedTabs,
                 storedKey, storedItem, got, now, voteTimes, created, monitorLogs, localStorage>>

(***************************************************************************)
(* SpecHash: hashVote called on any field tuples, one call after another.  *)
(***************************************************************************)
InitHash == InitRoundTrip

NextHash ==
  \/ \E vote \in VoteFieldInputs : HashVoteCall(vote)

SpecHash == InitHash /\ [][NextHash]_vars

(***************************************************************************)
(* The clock: election dates, the dashboard lists, timestamps of votes.    *)
(***************************************************************************)
\* the seconds between two times of the clock
ClockSeconds == 900

\* getElectionStatus: now < start: upcoming; now > end: completed; else active
GetElectionStatus(election) ==
  IF now < election.startDate THEN "upcoming"
  ELSE IF now > election.endDate THEN "completed"
  ELSE "active"

\* VoterDashboard.hasUserVoted: user.hasVoted?.[electionId] === true, user
\* being the prop of the dashboard
HasUserVoted(t, electionId) == tabUser[t].hasVoted[electionId] = TRUE

\* getAvailableElections: the ids of the active elections without the flag
\* (the dashboard's list taken as just loaded)
GetAvailableElections(t) ==
  {elections[i].id : i \in {j \in 1..Len(elections) :
      GetElectionStatus(elections[j]) = "active" /\ ~HasUserVoted(t, elections[j].id)}}

\* getVotedElections: the ids of the elections with the flag
GetVotedElections(t) ==
  {elections[i].id : i \in {j \in 1..Len(elections) : HasUserVoted(t, elections[j].id)}}

\* "Vote Now" on an election of the available list
EnterVotingAt(t, i) ==
  /\ elections[i].id \in GetAvailableElections(t)
  /\ EnterVoting(t, i)

\* submitVotes: timestamp = new Date().toISOString(), the same on every Vote
\* record of the submission; the records carry the token of the session
SubmitVotesAt(t) ==
  /\ SubmitVotes(t, SubmitWrites)
  /\ voteTimes' = IF allVotes' # allVotes
                  THEN Append(voteTimes, [voterToken |-> votingSession[t].voterToken,
                                          timestamp |-> now])
                  ELSE voteTimes

\* ClockSeconds pass: the countdown of an open flow has fired ClockSeconds
\* times without expiring, and no timeout of 2 seconds is still pending
Advance ==
  /\ now < MaxNow
  /\ \A t \in Tabs : ~completePending[t]
  /\ \A t \in Tabs : Mounted(t) => TickValues(timeRemaining[t], ClockSeconds) > 0
  /\ now' = now + 1
  /\ timeRemaining' = [t \in Tabs |->
       IF Mounted(t) THEN TickValues(timeRemaining[t], ClockSeconds) ELSE timeRemaining[t]]
  /\ UNCHANGED <<storageVars, tabUser, selectedElection, currentStep, votes, isSubmitting,
                 votingSession, errors, showConfirmation, isCompleted, completePending,
                 nextId, issued, exit, entrySnap,
                 results, savedResults, viewCount, mgmtElections, loadedTabs,
                 storedKey, storedItem, got, voteTimes, created, monitorLogs, localStorage, hashCalls>>

(***************************************************************************)
(* ElectionForm (AdminDashboard) and the SecurityMonitor panel.            *)
(***************************************************************************)
\* isValidElectionDate: start > now && end > start
IsValidElectionDate(startDate, endDate) == startDate > now /\ endDate > startDate

\* the value '' of an empty date input
MissingDate == -1

\* validateCandidateName: /^[a-zA-Z\s]+$/ on name.trim(), and name.trim() not empty
ValidateCandidateName(name) ==
  /\ Trim(name) # <<>>
  /\ \A i \in 1..Len(Trim(name)) : Trim(name)[i] \in LowerCaseChars \cup UpperCaseChars \cup {" "}

\* addCandidate and updateCandidate(..., 'name', value): the name is '' until
\* a value of letters and spaces is typed, which is stored sanitized
FormCandidate(id, value) ==
  [id |-> id,
   name |-> IF ~ValidateCandidateName(value) /\ value # <<>> THEN <<>> ELSE SanitizeInput(value)]

\* a position of the form state
FormPosition(id, title, candidates) ==
  [id |-> id, title |-> title, maxVotes |-> 1, candidates |-> candidates]

\* validateForm: the messages of one candidate
CandidateErrors(candidate) ==
  IF Trim(candidate.name) = <<>> THEN <<"candidate_name_required">>
  ELSE IF ~ValidateCandidateName(candidate.name) THEN <<"candidate_name_letters">>
  ELSE <<>>

\* validateForm: the messages of the candidates of a position from the i-th on
RECURSIVE CandidatesErrors(_, _)
CandidatesErrors(candidates, i) ==
  IF i > Len(candidates) THEN <<>>
  ELSE CandidateErrors(candidates[i]) \o CandidatesErrors(candidates, i + 1)

\* validateForm without the test for a position that has no candidate
RECURSIVE PositionsErrorsNoCount(_, _)
PositionsErrorsNoCount(positions, i) ==
  IF i > Len(positions) THEN <<>>
  ELSE (IF Trim(positions[i].title) = <<>> THEN <<"position_title_required">> ELSE <<>>)
       \o CandidatesErrors(positions[i].candidates, 1)
       \o PositionsErrorsNoCount(positions, i + 1)

\* validateForm: the messages of the positions from the i-th on
RECURSIVE PositionsErrors(_, _)
PositionsErrors(positions, i) ==
  IF i > Len(positions) THEN <<>>
  ELSE (IF Trim(positions[i].title) = <<>> THEN <<"position_title_required">> ELSE <<>>)
       \o (IF Len(positions[i].candidates) = 0 THEN <<"candidate_required">> ELSE <<>>)
       \o CandidatesErrors(positions[i].candidates, 1)
       \o PositionsErrors(positions, i + 1)

\* validateForm: newErrors
ValidateForm(form) ==
  (IF Trim(form.title) = <<>> THEN <<"title_required">> ELSE <<>>)
  \o (IF Trim(form.description) = <<>> THEN <<"description_required">> ELSE <<>>)
  \o (IF form.startDate = MissingDate THEN <<"start_required">> ELSE <<>>)
  \o (IF form.endDate = MissingDate THEN <<"end_required">> ELSE <<>>)
  \o (IF ~IsValidElectionDate(form.startDate, form.endDate) THEN <<"date_range">> ELSE <<>>)
  \o (IF Len(form.positions) = 0 THEN <<"position_required">> ELSE <<>>)
  \o PositionsErrors(form.positions, 1)

\* handleSubmit: positions.map(p => ({...p, title, description, maxVotes: 1})),
\* kept as the stored positions are: id, candidate ids, maxVotes
StoredPositions(positions) ==
  [i \in 1..Len(positions) |->
     Position(positions[i].id,
              [j \in 1..Len(positions[i].candidates) |-> positions[i].candidates[j].id])]

\* ElectionForm.handleSubmit for the election e2 (the id Date.now() gives):
\* validateForm, then the record is pushed with the sanitized title,
\* totalVotes 0 and its hash, and the creation is logged
CreateElection(form) ==
  /\ "e2" \notin created
  /\ IF ValidateForm(form) = <<>>
     THEN /\ Len(logs) < MaxLogs
          /\ elections' = Append(elections,
               ElectionWith("e2", SanitizeInput(form.title), StoredPositions(form.positions),
                            form.startDate, form.endDate))
          /\ logs' = AddSecurityLog(logs, SecurityLog("admin_action", "low", currentUser.id, "e2"))
          /\ created' = created \cup {"e2"}
     ELSE UNCHANGED <<elections, logs, created>>
  /\ UNCHANGED <<users, allVotes, sessions, currentUser, tabUser, flowVars, completePending,
                 nextId, issued, exit, entrySnap,
                 results, savedResults, viewCount, mgmtElections, loadedTabs,
                 storedKey, storedItem, got, now, voteTimes, monitorLogs, localStorage, hashCalls>>

\* Array.prototype.reverse
Reverse(seq) == [i \in 1..Len(seq) |-> seq[Len(seq) + 1 - i]]

\* loadLogs that also saves the reversed list
LoadLogsSaving ==
  /\ monitorLogs' = Reverse(logs)
  /\ logs' = Reverse(logs)
  /\ UNCHANGED <<users, elections, allVotes, sessions, currentUser, tabUser, flowVars,
                 completePending, nextId, issued, exit, entrySnap,
                 results, savedResults, viewCount, mgmtElections, loadedTabs,
                 storedKey, storedItem, got, now, voteTimes, created, localStorage, hashCalls>>

\* SecurityMonitor.loadLogs (mount effect and every 5 seconds):
\* setLogs(storage.getSecurityLogs().reverse()), most recent first
LoadLogs ==
  /\ monitorLogs' = Reverse(logs)
  /\ UNCHANGED <<storageVars, tabUser, flowVars,
                 completePending, nextId, issued, exit, entrySnap,
                 results, savedResults, viewCount, mgmtElections, loadedTabs,
                 storedKey, storedItem, got, now, voteTimes, created, localStorage, hashCalls>>

\* SecurityMonitor.clearLogs, the confirm dialog answered with confirmed
ClearLogs(confirmed) ==
  /\ IF confirmed
     THEN logs' = <<>> /\ monitorLogs' = <<>>
     ELSE UNCHANGED <<logs, monitorLogs>>
  /\ UNCHANGED <<users, elections, allVotes, sessions, currentUser, tabUser, flowVars,
                 completePending, nextId, issued, exit, entrySnap,
                 results, savedResults, viewCount, mgmtElections, loadedTabs,
                 storedKey, storedItem, got, now, voteTimes, created, localStorage, hashCalls>>

\* deleteElection, confirmed, in which k of its storage writes (saveElections,
\* saveVotes, addSecurityLog) succeed before one throws: the handler ends
\* there, loadElections is not reached
DeleteElectionThrows(i, k) ==
  /\ i \in 1..Len(mgmtElections)
  /\ elections' = IF k >= 1 THEN ElectionsWithout(mgmtElections, mgmtElections[i].id) ELSE elections
  /\ allVotes' = IF k >= 2 THEN VotesWithout(allVotes, mgmtElections[i].id) ELSE allVotes
  /\ UNCHANGED <<users, sessions, logs, currentUser, tabUser, flowVars, completePending,
                 nextId, issued, exit, entrySnap, otherVars>>

(***************************************************************************)
(* SpecManage: a voter's tab, the administrator's election list, form and  *)
(* security panel over the same storage, and the clock; every storage      *)
(* write succeeds.  At time 1 the election e1 is running and e2 does not   *)
(* exist yet.                                                              *)
(***************************************************************************)
\* what the form can hold when Create Election is clicked: titles and
\* descriptions (empty, blank, text, markup only), dates (none, or a time of
\* the clock), and position lists (none, a position without candidates or
\* without title, a candidate whose typed name was refused, one or two
\* complete positions)
FormTitles == {<<>>, <<" ">>, <<"B", "o", "a", "r", "d">>, <<"<", ">">>}
FormDescriptions == {<<>>, <<"t", "e", "r", "m">>}
FormDates == {MissingDate} \cup 1..(MaxNow + 1)
FormPositionLists ==
  {<<>>,
   <<FormPosition("p3", <<"H", "e", "a", "d">>, <<>>)>>,
   <<FormPosition("p3", <<" ">>, <<FormCandidate("c3", <<"A", "s", "h", "a">>)>>)>>,
   <<FormPosition("p3", <<"H", "e", "a", "d">>, <<FormCandidate("c3", <<"A", "1">>)>>)>>,
   <<FormPosition("p3", <<"H", "e", "a", "d">>,
                  <<FormCandidate("c3", <<"A", "s", "h", "a">>), FormCandidate("c4", <<"R", "a", "v", "i">>)>>)>>,
   <<FormPosition("p3", <<"H", "e", "a", "d">>, <<FormCandidate("c3", <<"A", "s", "h", "a">>)>>),
     FormPosition("p4", <<"C", "l", "e", "r", "k">>, <<>>)>>}

FormInputs ==
  [title : FormTitles, description : FormDescriptions, startDate : FormDates,
   endDate : FormDates, positions : FormPositionLists]

\* complete forms that differ in their dates only
DatedForms ==
  {f \in FormInputs : /\ f.title = <<"B", "o", "a", "r", "d">>
                       /\ f.description = <<"t", "e", "r", "m">>
                       /\ Len(f.positions) = 1 /\ Len(f.positions[1].candidates) = 2
                       /\ f.startDate # MissingDate /\ f.endDate # MissingDate}

InitManage ==
  /\ users = <<NewUser("admin", "admin"), NewUser("v1", "voter"), NewUser("v2", "voter")>>
  /\ elections = <<ElectionE1>>
  /\ allVotes = <<>>
  /\ sessions = <<>>
  /\ logs = <<>>
  /\ tabUser = [t \in Tabs |-> IF t = "t1" THEN NewUser("v1", "voter") ELSE NewUser("admin", "admin")]
  /\ currentUser = tabUser["t2"]
  /\ IdleInit
  /\ OtherInit

NextManage ==
  \/ \E i \in 1..Len(elections) : EnterVotingAt("t1", i) /\ UNCHANGED <<entrySnap, otherVars>>
  \/ \E c \in {"c1", "c2", "c3", "c4"} : HandleVoteChange("t1", c) /\ UNCHANGED otherVars
  \/ HandleNext("t1") /\ UNCHANGED otherVars
  \/ CancelVoting("t1") /\ UNCHANGED otherVars
  \/ SubmitVotesAt("t1") /\ UNCHANGED <<results, savedResults, viewCount, mgmtElections, loadedTabs,
                                        storedKey, storedItem, got, now, created, monitorLogs, localStorage, hashCalls>>
  \/ TimerRunOut("t1") /\ UNCHANGED otherVars
  \/ OnComplete("t1") /\ UNCHANGED otherVars
  \/ Advance
  \/ LoadElections
  \/ \E i \in 1..Len(mgmtElections) : \E confirmed \in BOOLEAN : DeleteElection(i, confirmed)
  \/ \E form \in DatedForms : CreateElection(form)
  \/ LoadLogs
  \/ \E confirmed \in BOOLEAN : ClearLogs(confirmed)

SpecManage == InitManage /\ [][NextManage]_vars

(***************************************************************************)
(* SpecForm: the administrator's ElectionForm with any form contents, the  *)
(* election list beside it, and the clock.                                 *)
(***************************************************************************)
NextForm ==
  \/ \E form \in FormInputs : CreateElection(form)
  \/ Advance
  \/ LoadElections
  \/ \E i \in 1..Len(mgmtElections) : \E confirmed \in BOOLEAN : DeleteElection(i, confirmed)

SpecForm == InitManage /\ [][NextForm]_vars

(***************************************************************************)
(* SpecDelete: one voter's tab and the administrator's election list, as   *)
(* in SpecAdmin, where a storage write of deleteElection may throw.        *)
(***************************************************************************)
NextDelete ==
  \/ NextAdmin
  \/ \E i \in 1..Len(mgmtElections) : \E k \in 0..2 : DeleteElectionThrows(i, k)

SpecDelete == InitSingle /\ [][NextDelete]_vars

(***************************************************************************)
(* Properties                                                              *)
(***************************************************************************)
\* the user a Vote record was cast by: the user its voter token was generated for
Caster(v) == issued[v.voterToken]

\* the has-voted flag of (userId, electionId) as stored, read off the records
FlagSet(us, userId, electionId) ==
  \E i \in 1..Len(us) : us[i].id = userId /\ us[i].hasVoted[electionId]

\* the ids of the positions of the flow of tab t, and those with a selection
PositionIds(t) == {selectedElection[t].positions[i].id : i \in 1..Len(selectedElection[t].positions)}
Selected(t) == {p \in PositionIds(t) : votes[t][p] # Unset}

\* the step completes the submission of the flow of tab t
Completes(t) == ~isCompleted[t] /\ isCompleted'[t]

\* C1: in every reachable state the Votes collection holds, for every user,
\* election and position, at most one Vote record cast by that user.
C1_OneVotePerUserPerElection ==
  \A i \in 1..Len(allVotes) : \A j \in 1..Len(allVotes) :
    (/\ i # j
     /\ allVotes[i].electionId = allVotes[j].electionId
     /\ allVotes[i].positionId = allVotes[j].positionId)
    => Caster(allVotes[i]) # Caster(allVotes[j])

\* C2: a step that completes the submission of user u's flow for election e
\* with session s adds to e's totalVotes the number of positions with a
\* selection, appends exactly one Vote record per such position (s's token,
\* the position, the selected candidate), sets u's has-voted flag for e,
\* makes s inactive, and changes no other user, election, session or
\* earlier Vote record.
C2_SuccessfulSubmission ==
  [][\A t \in Tabs : Completes(t) =>
       LET e == selectedElection[t].id
           u == tabUser[t].id
           s == votingSession[t]
           n == Cardinality(Selected(t))
       IN  /\ Len(elections') = Len(elections)
           /\ \A i \in 1..Len(elections) :
                elections'[i] = IF elections[i].id = e
                                THEN [elections[i] EXCEPT !.totalVotes = @ + n]
                                ELSE elections[i]
           /\ Len(allVotes') = Len(allVotes) + n
           /\ \A i \in 1..Len(allVotes) : allVotes'[i] = allVotes[i]
           /\ \A p \in Selected(t) :
                Cardinality({i \in (Len(allVotes) + 1)..Len(allVotes') :
                               allVotes'[i].positionId = p}) = 1
           /\ \A i \in (Len(allVotes) + 1)..Len(allVotes') :
                /\ allVotes'[i].electionId = e
                /\ allVotes'[i].voterToken = s.voterToken
                /\ allVotes'[i].positionId \in Selected(t)
                /\ allVotes'[i].candidateId = votes[t][allVotes'[i].positionId]
           /\ Len(users') = Len(users)
           /\ \A i \in 1..Len(users) :
                users'[i] = IF users[i].id = u
                            THEN [users[i] EXCEPT !.hasVoted[e] = TRUE]
                            ELSE users[i]
           /\ \E i \in 1..Len(users) : users[i].id = u
           /\ Len(sessions') = Len(sessions)
           /\ \A i \in 1..Len(sessions) :
                sessions'[i] = IF sessions[i].sessionId = s.sessionId
                               THEN [sessions[i] EXCEPT !.isActive = FALSE]
                               ELSE sessions[i]
           /\ \E i \in 1..Len(sessions) : sessions[i].sessionId = s.sessionId
    ]_vars

\* C2 witness: a two-position submission has completed after another flow's
\* vote and session were stored
C2_Witness ==
  \E t \in Tabs :
    /\ isCompleted[t] /\ selectedElection[t].id = "e1"
    /\ Len(allVotes) = 3 /\ Len(sessions) = 2
    /\ \E i \in 1..Len(elections) : elections[i].id = "e1" /\ elections[i].totalVotes = 2

\* C3: hasUserVotedInElection(u, e) is false as long as no vote of u in e was
\* stored (also for an id that is no user), is true right after the step that
\* completes a submission of u for e, and once true stays true.
C3_HasVotedFlag ==
  [][/\ \A u \in Voters \cup {"admin", "nobody"} : \A e \in ElectionIds :
          /\ HasUserVotedInElection(users, u, e) =>
               \E i \in 1..Len(allVotes) : allVotes[i].electionId = e /\ Caster(allVotes[i]) = u
          /\ HasUserVotedInElection(users', u, e) =>
               \E i \in 1..Len(allVotes') : allVotes'[i].electionId = e /\ Caster(allVotes'[i]) = u
          /\ HasUserVotedInElection(users, u, e) => HasUserVotedInElection(users', u, e)
     /\ \A e \in ElectionIds : ~HasUserVotedInElection(users', "nobody", e)
     /\ \A t \in Tabs : Completes(t) =>
          HasUserVotedInElection(users', tabUser[t].id, selectedElection[t].id)
    ]_vars

\* C3 witness: the user has completed a submission in one election, after a
\* flow in the other election that stored no vote (the flag of that one is unset)
C3_Witness ==
  \E t \in Tabs : \E e \in ElectionIds :
    /\ isCompleted[t] /\ e # selectedElection[t].id
    /\ HasUserVotedInElection(users, tabUser[t].id, selectedElection[t].id)
    /\ ~HasUserVotedInElection(users, tabUser[t].id, e)
    /\ \E i \in 1..Len(users) : users[i].id = tabUser[t].id /\ users[i].votingTokens[e] # NoToken

\* the last entry of the security log
LastLog(ls) == ls[Len(ls)]

\* C4: entering the voting flow for a (user, election) pair whose has-voted
\* flag is already true ends in Cancelled without a session: VotingSessions
\* and the user's votingTokens are unchanged, no countdown is started, and
\* exactly one double_vote_attempt entry of severity high is appended.
C4_EntryAfterVoteIsCancelled ==
  [][\A t \in Tabs : \A i \in 1..Len(elections) :
       (EnterVoting(t, i) /\ FlagSet(users, tabUser[t].id, elections[i].id)) =>
         /\ sessions' = sessions
         /\ users' = users
         /\ ~Mounted(t)'
         /\ exit'[t] = "cancelled"
         /\ timeRemaining' = timeRemaining
         /\ votingSession'[t] = NoSession
         /\ Len(logs') = Len(logs) + 1
         /\ \A j \in 1..Len(logs) : logs'[j] = logs[j]
         /\ LastLog(logs').type = "double_vote_attempt"
         /\ LastLog(logs').severity = "high"
         /\ LastLog(logs').userId = tabUser[t].id
         /\ LastLog(logs').electionId = elections[i].id
    ]_vars

\* C4 witness: a tab whose user has voted in e2 was sent back from the entry
\* of the e2 flow with the high-severity entry logged
C4_Witness ==
  \E t \in Tabs :
    /\ exit[t] = "cancelled" /\ ~Mounted(t)
    /\ FlagSet(users, tabUser[t].id, "e2")
    /\ Len(logs) > 0
    /\ LastLog(logs).type = "double_vote_attempt"
    /\ LastLog(logs).severity = "high"
    /\ LastLog(logs).userId = tabUser[t].id
    /\ LastLog(logs).electionId = "e2"

\* C5: when a flow is past its entry check and the has-voted flag of its
\* (user, election) pair has been set by another flow, its Submit appends a
\* double_vote_attempt entry of severity critical, ends the flow in Cancelled
\* and writes no vote, flag, counter or session.
C5_SubmitAfterVoteIsCancelled ==
  [][\A t \in Tabs : \A k \in 0..SubmitWrites :
       (/\ SubmitVotes(t, k)
        /\ votingSession[t] # NoSession
        /\ FlagSet(users, tabUser[t].id, selectedElection[t].id)) =>
         /\ allVotes' = allVotes
         /\ users' = users
         /\ elections' = elections
         /\ sessions' = sessions
         /\ ~Mounted(t)'
         /\ exit'[t] = "cancelled"
         /\ Len(logs') = Len(logs) + 1
         /\ \A j \in 1..Len(logs) : logs'[j] = logs[j]
         /\ LastLog(logs').type = "double_vote_attempt"
         /\ LastLog(logs').severity = "critical"
         /\ LastLog(logs').userId = tabUser[t].id
         /\ LastLog(logs').electionId = selectedElection[t].id
    ]_vars

\* C5 witness: of two flows of one user for one election the first has
\* completed and the second was cancelled at Submit with the critical entry
C5_Witness ==
  \E t \in Tabs : \E o \in Tabs \ {t} :
    /\ tabUser[t].id = tabUser[o].id
    /\ exit[t] = "cancelled" /\ ~Mounted(t)
    /\ isCompleted[o]
    /\ Len(logs) > 0
    /\ LastLog(logs).type = "double_vote_attempt"
    /\ LastLog(logs).severity = "critical"
    /\ LastLog(logs).electionId = selectedElection[o].id
    /\ Len(allVotes) = Len(selectedElection[o].positions)

\* C6: no field of any User record holds the voter token of a stored Vote
\* record: for every vote v, user u and election e, u.votingTokens[e] is not
\* v.voterToken.
C6_TokenNotLinkedToIdentity ==
  \A i \in 1..Len(allVotes) : \A j \in 1..Len(users) : \A e \in ElectionIds :
    users[j].votingTokens[e] # allVotes[i].voterToken

\* C7 as stated: after a flow has ended in Cancelled or Expired the Votes,
\* Users, Elections and VotingSessions collections are identical to their
\* state immediately before the flow was entered.
C7_CancelledFlowWritesNothing ==
  \A t \in Tabs : exit[t] \in {"cancelled", "expired"} =>
    /\ allVotes = entrySnap[t].allVotes
    /\ users = entrySnap[t].users
    /\ elections = entrySnap[t].elections
    /\ sessions = entrySnap[t].sessions

\* C7 amended: after a flow has ended in Cancelled or Expired, either it was
\* stopped by the entry check and the four collections are as before entry,
\* or VotingSessions has gained the flow's session and the user's record holds
\* its token for the election (nothing else of Users or VotingSessions differs
\* but what a Submit of the flow wrote); if the flow stored no Vote record, no
\* has-voted flag and no counter changed and the session is still active.
C7_CancelledFlowLeavesSession ==
  \A t \in Tabs : exit[t] \in {"cancelled", "expired"} =>
    LET before == entrySnap[t]
        n == Len(before.sessions)
    IN  \/ /\ allVotes = before.allVotes
           /\ users = before.users
           /\ elections = before.elections
           /\ sessions = before.sessions
        \/ /\ Len(sessions) = n + 1
           /\ \A i \in 1..n : sessions[i] = before.sessions[i]
           /\ Len(users) = Len(before.users)
           /\ \E j \in 1..Len(users) :
                LET e == sessions[n + 1].electionId
                IN  /\ users[j].id = tabUser[t].id
                    /\ users[j].votingTokens[e] = sessions[n + 1].voterToken
                    /\ before.users[j].votingTokens[e] # sessions[n + 1].voterToken
                    /\ \A i \in 1..Len(users) : i # j => users[i] = before.users[i]
                    /\ [users[j] EXCEPT !.votingTokens[e] = before.users[j].votingTokens[e],
                                        !.hasVoted[e] = before.users[j].hasVoted[e]]
                         = before.users[j]
                    /\ allVotes = before.allVotes =>
                         /\ elections = before.elections
                         /\ sessions[n + 1].isActive
                         /\ users[j].hasVoted = before.users[j].hasVoted
           /\ Len(allVotes) >= Len(before.allVotes)
           /\ \A i \in 1..Len(before.allVotes) : allVotes[i] = before.allVotes[i]

\* C7 witness: a flow that passed the entry check was cancelled without a
\* stored vote; its session is in VotingSessions
C7_Witness ==
  \E t \in Tabs :
    /\ exit[t] = "cancelled"
    /\ Len(sessions) = Len(entrySnap[t].sessions) + 1
    /\ allVotes = entrySnap[t].allVotes
    /\ users # entrySnap[t].users

\* C8: the countdown of a flow starts at 1800, every firing of the interval
\* callback takes exactly one off, a mounted flow never shows less than 1, and
\* the firing at 1 (the 1800th) ends a flow that is not completed in Expired.
C8_Countdown ==
  [][\A t \in Tabs :
       /\ (~Mounted(t) /\ Mounted(t)') => timeRemaining'[t] = 1800
       /\ Mounted(t)' => timeRemaining'[t] \in 1..1800
       /\ (TimerTick(t) /\ timeRemaining[t] > 1) =>
            /\ timeRemaining'[t] = timeRemaining[t] - 1
            /\ Mounted(t)'
            /\ exit'[t] = exit[t]
       /\ (TimerTick(t) /\ timeRemaining[t] = 1) =>
            /\ ~Mounted(t)'
            /\ ~isCompleted[t] => exit'[t] = "expired"
       /\ (Mounted(t) /\ Mounted(t)' /\ ~TimerTick(t)) => timeRemaining'[t] = timeRemaining[t]
    ]_vars

\* C8 witness: the countdown of a flow that created its session has run out
C8_Witness ==
  /\ exit["t1"] = "expired"
  /\ ~Mounted("t1")
  /\ Len(sessions) > 0

\* C9: Next on the last step, with k >= 1 positions of the election without a
\* selection, shows exactly k messages (one per such position), stays on the
\* step and changes no selection; with k = 0 it opens the confirmation; the
\* confirmation is never open with a position without selection.
C9_LastStepValidation ==
  [][\A t \in Tabs :
       /\ (HandleNext(t) /\ currentStep[t] = Len(selectedElection[t].positions) - 1) =>
            LET unset == PositionIds(t) \ Selected(t)
            IN  /\ votes' = votes
                /\ currentStep' = currentStep
                /\ Len(errors'[t]) = Cardinality(unset)
                /\ Range(errors'[t]) = unset
                /\ showConfirmation'[t] = (unset = {})
       /\ showConfirmation'[t] => PositionIds(t)' \ Selected(t)' = {}
    ]_vars

\* C9 witness: Next on the last step of the two-position election left two
\* messages and the step view open
C9_Witness ==
  \E t \in Tabs :
    /\ Mounted(t) /\ ~showConfirmation[t]
    /\ currentStep[t] = 1
    /\ Len(errors[t]) = 2

\* the step writes one of the records that only submitVotes writes: a Vote, a
\* has-voted flag, a totalVotes counter or the deactivation of a session
WritesSubmission ==
  \/ allVotes' # allVotes
  \/ elections' # elections
  \/ \E i \in 1..Len(users) : users'[i].hasVoted # users[i].hasVoted
  \/ \E i \in 1..Len(sessions) : sessions'[i] # sessions[i]

ReadyToSubmit(t) ==
  /\ Mounted(t) /\ showConfirmation[t] /\ ~isCompleted[t] /\ ~isSubmitting[t]
  /\ votingSession[t] # NoSession
  /\ ~FlagSet(users, tabUser[t].id, selectedElection[t].id)
  /\ Len(allVotes) + Len(selectedElection[t].positions) <= MaxVotes

\* a Submit of tab t in which a storage write throws
SubmitThrows(t) == \E k \in 0..(SubmitWrites - 1) : SubmitVotes(t, k)

\* a throwing Submit that leaves votes of the submission stored and the flag unset
ThrowLeavesVotesWithoutFlag(t) ==
  /\ SubmitThrows(t)
  /\ Len(allVotes') > Len(allVotes)
  /\ ~FlagSet(users', tabUser[t].id, selectedElection[t].id)

\* a throwing Submit that leaves the flag set and no vote of the submission stored
ThrowLeavesFlagWithoutVotes(t) ==
  /\ SubmitThrows(t)
  /\ allVotes' = allVotes
  /\ FlagSet(users', tabUser[t].id, selectedElection[t].id)

C12_ThrowStaysSubmitting ==
  [][\A t \in {"t1"} : (ReadyToSubmit(t) /\ SubmitThrows(t)) =>
       /\ Mounted(t)' /\ ~isCompleted'[t]
       /\ isSubmitting'[t]
    ]_vars

\* C12 amended: after a Submit in which a write throws the flow is back in
\* the confirmation view with isSubmitting false (Submit and Review Votes
\* available again), neither completed nor cancelled, with no timeout
\* scheduled and no log entry; nothing is retried: submission records are
\* written only by a step that is a Submit.
C12_ThrowReturnsToConfirming ==
  [][\A t \in {"t1"} :
       /\ (ReadyToSubmit(t) /\ SubmitThrows(t)) =>
            /\ Mounted(t)' /\ ~isCompleted'[t]
            /\ ~isSubmitting'[t]
            /\ showConfirmation'[t]
            /\ completePending' = completePending
            /\ exit' = exit
            /\ logs' = logs
            /\ votes' = votes /\ currentStep' = currentStep
            /\ votingSession' = votingSession
       /\ WritesSubmission => \E k \in 0..SubmitWrites : SubmitVotes(t, k)
    ]_vars

\* C12 witness: after a throw behind saveUsers the flow is in the confirmation
\* view, its votes and flag stored and its session still active
C12_Witness ==
  /\ Mounted("t1") /\ showConfirmation["t1"] /\ ~isCompleted["t1"] /\ ~isSubmitting["t1"]
  /\ FlagSet(users, tabUser["t1"].id, selectedElection["t1"].id)
  /\ \E i \in 1..Len(sessions) :
       sessions[i].sessionId = votingSession["t1"].sessionId /\ sessions[i].isActive

\* the election the shown results belong to
ShownElection == elections[CHOOSE i \in 1..Len(elections) : elections[i].id = results.electionId]

\* the number of stored Vote records of election e for position p and candidate c
StoredCount(e, p, c) ==
  Cardinality({k \in 1..Len(allVotes) :
                 /\ allVotes[k].electionId = e
                 /\ allVotes[k].positionId = p
                 /\ allVotes[k].candidateId = c})

\* the number of stored Vote records of election e for position p
StoredTotal(e, p) ==
  Cardinality({k \in 1..Len(allVotes) :
                 allVotes[k].electionId = e /\ allVotes[k].positionId = p})

\* pc is part * 100 / whole in thousandths of a percent, rounded down
IsPercentage(pc, part, whole) ==
  IF whole = 0 THEN pc = 0
  ELSE pc * whole <= part * 100000 /\ part * 100000 < (pc + 1) * whole

\* the place of candidate c in the election's list of candidates of a position
CandidateIndex(position, c) ==
  CHOOSE i \in 1..Len(position.candidates) : position.candidates[i] = c

\* C13: in the results of an election, for every position each candidate's
\* count is the number of the election's votes with that position and
\* candidate, its percentage is count * 100 / the position's own total (0 for
\* a position without votes), the candidates are in descending order of count
\* with ties in the election's candidate order, and the winner mark goes to
\* the first-ranked candidate alone, and only when its count is above zero.
C13_Tabulation ==
  results # NoResults =>
    LET e == ShownElection
    IN  /\ Len(results.positions) = Len(e.positions)
        /\ \A p \in 1..Len(e.positions) :
             LET pos == e.positions[p]
                 pr == results.positions[p]
                 n == Len(pr.candidates)
             IN  /\ pr.positionId = pos.id
                 /\ pr.totalVotes = StoredTotal(e.id, pos.id)
                 /\ n = Len(pos.candidates)
                 /\ {pr.candidates[j].candidateId : j \in 1..n} = Range(pos.candidates)
                 /\ \A j \in 1..n :
                      /\ pr.candidates[j].voteCount =
                           StoredCount(e.id, pos.id, pr.candidates[j].candidateId)
                      /\ IsPercentage(pr.candidates[j].percentage,
                                      pr.candidates[j].voteCount, StoredTotal(e.id, pos.id))
                 /\ \A j \in 1..n : \A k \in 1..n : j < k =>
                      /\ pr.candidates[j].voteCount >= pr.candidates[k].voteCount
                      /\ pr.candidates[j].voteCount = pr.candidates[k].voteCount =>
                           CandidateIndex(pos, pr.candidates[j].candidateId)
                             < CandidateIndex(pos, pr.candidates[k].candidateId)
                 /\ \A j \in 1..n :
                      IsWinner(pr.candidates, j) <=>
                        (j = 1 /\ StoredCount(e.id, pos.id, pr.candidates[j].candidateId) > 0)
                 /\ StoredTotal(e.id, pos.id) = 0 =>
                      \A j \in 1..n : ~IsWinner(pr.candidates, j)

\* C13 witness: A = 3, B = 1, C = 0 gives [A, B, C] with 75, 25 and 0 percent
\* and A the winner, next to a position of the election that has no vote
C13_Witness ==
  /\ results # NoResults
  /\ results.electionId = "r1"
  /\ results.positions[1].candidates =
       <<[candidateId |-> "a", voteCount |-> 3, percentage |-> 75000],
         [candidateId |-> "b", voteCount |-> 1, percentage |-> 25000],
         [candidateId |-> "c", voteCount |-> 0, percentage |-> 0]>>
  /\ IsWinner(results.positions[1].candidates, 1)
  /\ results.positions[2].totalVotes = 0
  /\ ~IsWinner(results.positions[2].candidates, 1)

\* C14: totalParticipants of the results is the number of distinct voter
\* tokens among the election's Vote records, and the turnout is that number
\* times 100 over the number of users with role voter, 0 when there is none.
C14_Turnout ==
  results # NoResults =>
    LET tokens == {allVotes[k].voterToken :
                     k \in {i \in 1..Len(allVotes) : allVotes[i].electionId = results.electionId}}
        voters == {i \in 1..Len(users) : users[i].role = "voter"}
    IN  /\ results.totalParticipants = Cardinality(tokens)
        /\ IsPercentage(results.turnoutPercentage, Cardinality(tokens), Cardinality(voters))

\* C14 witness: four records with two distinct tokens and two registered
\* voters next to the administrator: two participants, turnout 100 percent
C14_Witness ==
  /\ results # NoResults
  /\ results.electionId = "r1"
  /\ Len(allVotes) = 4
  /\ \A k \in 1..Len(allVotes) : allVotes[k].electionId = "r1"
  /\ Len(users) = 3
  /\ results.totalParticipants = 2
  /\ results.turnoutPercentage = 100000

C16_DeleteElectionCascades ==
  [][\A i \in 1..Len(mgmtElections) :
       LET e == mgmtElections[i].id
       IN  /\ DeleteElection(i, TRUE) =>
                /\ \A j \in 1..Len(elections') : elections'[j].id # e
                /\ \A k \in 1..Len(allVotes') : allVotes'[k].electionId # e
                /\ Len(allVotes') =
                     Len(allVotes) - Cardinality({k \in 1..Len(allVotes) : allVotes[k].electionId = e})
                /\ \A o \in ElectionIds \ {e} :
                     GetVotesByElection(allVotes', o) = GetVotesByElection(allVotes, o)
                /\ Len(logs') = Len(logs) + 1
                /\ \A j \in 1..Len(logs) : logs'[j] = logs[j]
                /\ LastLog(logs').type = "admin_action"
                /\ LastLog(logs').severity = "medium"
                /\ LastLog(logs').electionId = e
           /\ DeleteElection(i, FALSE) => UNCHANGED vars
    ]_vars

\* C16 witness: e2 was deleted after votes were cast in both elections; the
\* two votes of e1 are stored, the one of e2 is gone
C16_Witness ==
  /\ Len(elections) = 1 /\ elections[1].id = "e1"
  /\ Len(allVotes) = 2
  /\ \A k \in 1..Len(allVotes) : allVotes[k].electionId = "e1"
  /\ FlagSet(users, "v1", "e2")
  /\ LastLog(logs).type = "admin_action"

\* the number of records with role admin
AdminCount(us) == Cardinality({i \in 1..Len(us) : us[i].role = "admin"})

\* C17: once the application has been loaded (initializeAdminAccount has been
\* called) the Users collection holds exactly one admin, whatever registrations,
\* logins and voting flows come between the calls; a load that finds an admin
\* leaves the Users collection as it is, and no load drops a record.
C17_OneAdminIdempotent ==
  [][/\ loadedTabs' # {} => AdminCount(users') = 1
     /\ \A t \in Tabs : LoadApp(t) =>
          /\ AdminCount(users) >= 1 => users' = users
          /\ Len(users') >= Len(users)
          /\ SubSeq(users', 1, Len(users)) = users]_vars

\* a tab was reloaded in the middle of a voting flow, and a registered voter
\* has cast a ballot
C17_Witness ==
  /\ \E t \in Tabs : exit[t] = "reloaded"
  /\ \E i \in 1..Len(users) : users[i].role = "voter" /\ users[i].hasVoted["e2"]
  /\ Len(allVotes) > 0
  /\ AdminCount(users) = 1

\* the email reads local-part@bnmit.in, the local part being one or more of the
\* characters a-z A-Z 0-9 . _ % + -
MatchesBnmitIn(email) ==
  \E n \in 1..Len(email) :
    /\ \A i \in 1..n : email[i] \in LocalPartChars
    /\ SubSeq(email, n + 1, Len(email)) = <<"@", "b", "n", "m", "i", "t", ".", "i", "n">>

\* the step is a submission of the Login form, in either mode, with this email
AttemptWith(emailInput) ==
  \E t \in Tabs : \E p \in PasswordInputs : \E c \in ConfirmInputs :
    Login(t, emailInput, p) \/ Register(t, emailInput, p, c)

\* what the claim calls stored state: users, current user, security log
StoredUnchanged == UNCHANGED <<users, currentUser, logs>>

\* C18 (as stated): every stored email reads local-part@bnmit.in, and a login
\* or registration attempt with an email that does not read so changes no
\* stored state (an attempt that changes stored state had an email that reads
\* so).
C18_OtherEmailsChangeNothing ==
  [][/\ \A i \in 1..Len(users') : MatchesBnmitIn(users'[i].email)
     /\ \/ StoredUnchanged
        \/ \A e \in EmailInputs : AttemptWith(e) => MatchesBnmitIn(e)]_vars

\* C18 (amended): every stored email reads local-part@bnmit.in, and an attempt
\* whose email does not read so after the form has lower-cased and sanitized it
\* changes no stored state; an email that reads so only after that (A@BNMIT.IN)
\* is accepted.
C18_OtherEmailsAfterLowerCase ==
  [][/\ \A i \in 1..Len(users') : MatchesBnmitIn(users'[i].email)
     /\ \/ StoredUnchanged
        \/ \A e \in EmailInputs : AttemptWith(e) => MatchesBnmitIn(SanitizeInput(ToLowerCase(e)))]_vars

\* a voter is stored, and the Login form of a tab can be submitted with
\* a@gmail.com
C18_Witness ==
  /\ \E i \in 1..Len(users) : users[i].role = "voter" /\ MatchesBnmitIn(users[i].email)
  /\ ENABLED Register("t1", <<"a", "@", "g", "m", "a", "i", "l", ".", "c", "o", "m">>, <<"G", "O", "O", "D", "P", "a", "s", "s", "1", "!">>, <<"G", "O", "O", "D", "P", "a", "s", "s", "1", "!">>)

\* the password has a character of the set
HasCharOf(password, chars) == \E i \in 1..Len(password) : password[i] \in chars

\* the policy: length >= 8, an uppercase letter, a lowercase letter, a digit,
\* a special character
MeetsPolicy(password) ==
  /\ Len(password) >= 8
  /\ HasCharOf(password, UpperCaseChars)
  /\ HasCharOf(password, LowerCaseChars)
  /\ HasCharOf(password, DigitChars)
  /\ HasCharOf(password, SpecialChars)

\* the email as the form compares and stores it
FormEmail(emailInput) == SanitizeInput(ToLowerCase(emailInput))

\* C19: a registration whose password fails the policy ("short1!" and
\* "alllowercase1!" fail, "GOODPass1!" passes), whose confirmation differs, or
\* whose email is already stored leaves users, current user and log unchanged
\* (stated here the other way round: a registration that changes any of the
\* three had a password that meets the policy, a matching confirmation and an
\* email not yet stored); no two records share an email; an accepted
\* registration appends exactly one record, a voter with an empty has-voted map.
C19_RegistrationRejectedOrOneVoter ==
  [][/\ Len(ValidatePassword(<<"s", "h", "o", "r", "t", "1", "!">>)) > 0
     /\ Len(ValidatePassword(<<"a", "l", "l", "l", "o", "w", "e", "r", "c", "a", "s", "e", "1", "!">>)) > 0
     /\ Len(ValidatePassword(<<"G", "O", "O", "D", "P", "a", "s", "s", "1", "!">>)) = 0
     /\ \A i, j \in 1..Len(users') : users'[i].email = users'[j].email => i = j
     /\ \/ StoredUnchanged
        \/ \A t \in Tabs : \A e \in EmailInputs : \A p \in PasswordInputs : \A c \in ConfirmInputs :
             Register(t, e, p, c) =>
               /\ MeetsPolicy(p)
               /\ p = c
               /\ \A i \in 1..Len(users) : users[i].email # FormEmail(e)
               /\ Len(users') = Len(users) + 1
               /\ SubSeq(users', 1, Len(users)) = users
               /\ users'[Len(users')].role = "voter"
               /\ \A el \in ElectionIds : ~users'[Len(users')].hasVoted[el]]_vars

\* two voters have registered, and the form of a tab can be submitted again
\* with the email of the first
C19_Witness ==
  /\ Cardinality({i \in 1..Len(users) : users[i].role = "voter"}) = 2
  /\ ENABLED Register("t1", <<"a", "@", "b", "n", "m", "i", "t", ".", "i", "n">>, <<"G", "O", "O", "D", "P", "a", "s", "s", "1", "!">>, <<"G", "O", "O", "D", "P", "a", "s", "s", "1", "!">>)

\* C20: a getter never throws; when the item under the key is absent, malformed
\* or not decryptable, a collection getter gives the empty collection and
\* getCurrentUser gives null.
C20_DecryptFailsSoft ==
  got.outcome # "none" =>
    /\ got.value # Thrown
    /\ (\/ storedItem.kind \in {"absent", "empty", "malformed"}
        \/ (storedItem.kind = "ciphertext" /\ storedItem.key # EncryptionKey))
         => got.value = IF storedKey = CurrentUserKey THEN JsonNull ELSE JsonArray(<<>>)

\* getUsers has read an item whose decryption threw, or getCurrentUser one
\* encrypted under another passphrase
C20_Witness ==
  \/ /\ storedKey = "voting_users"
     /\ storedItem = Malformed
     /\ got.outcome = "utf8_throws"
     /\ got.value = JsonArray(<<>>)
  \/ /\ storedKey = CurrentUserKey
     /\ storedItem = Ciphertext(OtherKey, JsonStringify(JsonObject("v1")))
     /\ got.outcome = "garbled_text"
     /\ got.value = JsonNull

\* the election token k was generated for: that of the session created with it
TokenElection(ss, k) ==
  ss[CHOOSE i \in 1..Len(ss) : ss[i].voterToken = k].electionId

\* C23: at most one token is ever generated for a user and an election, and
\* votingTokens[election] of a user record never changes once it is set.
C23_TokenIssuedOncePerPair ==
  [][/\ \A j, k \in 1..Len(issued') :
          (issued'[j] = issued'[k] /\ TokenElection(sessions', j) = TokenElection(sessions', k))
            => j = k
     /\ \A i \in 1..Len(users) : \A e \in ElectionIds :
          users[i].votingTokens[e] # NoToken =>
            users'[i].votingTokens[e] = users[i].votingTokens[e]]_vars

\* the sessions whose token was generated for the user and the election and
\* that are still active
ActiveSessions(userId, e) ==
  {i \in 1..Len(sessions) :
     /\ sessions[i].isActive
     /\ sessions[i].electionId = e
     /\ sessions[i].voterToken \in 1..Len(issued)
     /\ issued[sessions[i].voterToken] = userId}

\* C24: the VotingSessions collection never holds two active sessions whose
\* tokens were issued to the same user for the same election.
C24_OneActiveSessionPerPair ==
  \A v \in Voters : \A e \in ElectionIds : Cardinality(ActiveSessions(v, e)) <= 1

\* C22: every step other than a confirmed clearLogs leaves the entries of the
\* security log in place and in order: the log before the step is a prefix of
\* the log after it.
C22_LogAppendOnly ==
  [][\/ ClearLogs(TRUE)
     \/ /\ Len(logs') >= Len(logs)
        /\ SubSeq(logs', 1, Len(logs)) = logs]_vars

\* the security panel has loaded a log of two different entries, most recent
\* first, and the stored log is still in the order of writing
C22_Witness ==
  /\ Len(logs) = 2
  /\ logs[1].type = "admin_action"
  /\ logs[2].type = "vote_cast"
  /\ monitorLogs = <<logs[2], logs[1]>>

\* C26: once a user has completed a submission for an election and the tab
\* is back on the dashboard, the election is in the "already voted" list of
\* the tab and not in its "available to vote" list.
C26_DashboardListsFollowVote ==
  \A t \in Tabs : \A i \in 1..Len(elections) :
    (/\ ~Mounted(t)
     /\ ~completePending[t]
     /\ exit[t] = "completed"
     /\ HasUserVotedInElection(users, tabUser[t].id, elections[i].id))
      => /\ elections[i].id \notin GetAvailableElections(t)
         /\ elections[i].id \in GetVotedElections(t)

\* C27: the totalVotes counter of every stored election equals the number of
\* Vote records of the election in the Votes collection.
C27_TotalVotesIsVoteCount ==
  \A i \in 1..Len(elections) :
    elections[i].totalVotes = Len(GetVotesByElection(allVotes, elections[i].id))

\* C28: the timestamp of every Vote record lies between the start date and
\* the end date of its election.
C28_VoteWithinElectionDates ==
  \A i \in 1..Len(allVotes) : \A j \in 1..Len(elections) : \A k \in 1..Len(voteTimes) :
    (allVotes[i].electionId = elections[j].id /\ voteTimes[k].voterToken = allVotes[i].voterToken)
      => /\ elections[j].startDate <= voteTimes[k].timestamp
         /\ voteTimes[k].timestamp <= elections[j].endDate

\* C29: every Vote record names a stored election, a position of that
\* election and a candidate of that position.
C29_VotesReferToStoredElections ==
  \A i \in 1..Len(allVotes) :
    \E j \in 1..Len(elections) :
      /\ elections[j].id = allVotes[i].electionId
      /\ \E p \in 1..Len(elections[j].positions) :
           /\ elections[j].positions[p].id = allVotes[i].positionId
           /\ allVotes[i].candidateId \in Range(elections[j].positions[p].candidates)

\* C30: deleteElection of one election leaves every other stored election in
\* storage, with the same fields.
C30_DeleteLeavesOtherElections ==
  [][\A i \in 1..Len(mgmtElections) :
       DeleteElection(i, TRUE) =>
         \A j \in 1..Len(elections) :
           elections[j].id # mgmtElections[i].id =>
             \E k \in 1..Len(elections') : elections'[k] = elections[j]]_vars

\* the own property names of an object
Names(x) == {x.members[i].name : i \in 1..Len(x.members)}

\* x and y are the same value of an entity shape: same type, same literal,
\* same elements in order, and the same value read from every property
RECURSIVE SameValue(_, _)
SameValue(x, y) ==
  IF x.type # y.type THEN FALSE
  ELSE CASE x.type \in {"null", "undefined"} -> TRUE
         [] x.type \in {"string", "number", "boolean"} -> x.value = y.value
         [] x.type = "array" ->
              /\ Len(x.items) = Len(y.items)
              /\ \A i \in 1..Len(x.items) : SameValue(x.items[i], y.items[i])
         [] x.type = "object" ->
              \A name \in Names(x) \cup Names(y) : SameValue(Field(x, name), Field(y, name))

\* everything the getter of the key can give on the stored items
Reads(store, key) == {Getter(key, store[key], outcome) : outcome \in DecryptOutcomes(store[key])}

DifferingFields(v, w) == {f \in DOMAIN v : v[f] # w[f]}

\* C25: two calls of hashVote with the same five fields give the same hash,
\* and two calls whose arguments differ in exactly one field give different
\* hashes.
C25_HashVoteDeterministicFieldSensitive ==
  \A i, j \in 1..Len(hashCalls) :
    /\ hashCalls[i].vote = hashCalls[j].vote => hashCalls[i].hash = hashCalls[j].hash
    /\ Cardinality(DifferingFields(hashCalls[i].vote, hashCalls[j].vote)) = 1
         => hashCalls[i].hash # hashCalls[j].hash

\* hashVote was called twice with votes that differ in the timestamp only
C25_Witness ==
  /\ Len(hashCalls) = 2
  /\ DifferingFields(hashCalls[1].vote, hashCalls[2].vote) = {"timestamp"}
  /\ hashCalls[1].hash # hashCalls[2].hash


\* the writes of a submission by (userId, electionId) found in storage: Vote
\* records of the election, the has-voted flag, a counted election, an
\* inactive session of the election, the vote_cast entry
SubmissionWrites(userId, electionId) ==
  {w \in {"votes", "flag", "counter", "session", "log"} :
     \/ w = "votes" /\ \E i \in 1..Len(allVotes) : allVotes[i].electionId = electionId
     \/ w = "flag" /\ FlagSet(users, userId, electionId)
     \/ w = "counter" /\ \E i \in 1..Len(elections) :
                            elections[i].id = electionId /\ elections[i].totalVotes > 0
     \/ w = "session" /\ \E i \in 1..Len(sessions) :
                            sessions[i].electionId = electionId /\ ~sessions[i].isActive
     \/ w = "log" /\ \E i \in 1..Len(logs) :
                        /\ logs[i].type = "vote_cast"
                        /\ logs[i].userId = userId
                        /\ logs[i].electionId = electionId}

\* C31: whether the expiring firing of the countdown comes before or after
\* the Submit click, storage holds all five writes of the submission or none
\* of them, never a proper subset.
C31_ExpiryAndSubmitAllOrNothing ==
  SubmissionWrites("v1", "e2") \in {{}, {"votes", "flag", "counter", "session", "log"}}

\* the countdown expired the flow after its Submit, before onComplete ran:
\* the flow is closed as completed with all writes in storage
C31_Witness ==
  /\ ~Mounted("t1")
  /\ completePending["t1"]
  /\ exit["t1"] = "completed"
  /\ SubmissionWrites("v1", "e2") = {"votes", "flag", "counter", "session", "log"}


\* C32: every stored Vote record is verified and carries the hashVote of its
\* own five fields, and a step changes the Votes collection only by appending
\* records or by removing records, the ones kept staying as they are.
C32_StoredVotesVerify ==
  /\ [](\A i \in 1..Len(allVotes) :
         /\ allVotes[i].verified
         /\ allVotes[i].cryptographicHash =
              Sha256(<<allVotes[i].electionId, "-", allVotes[i].positionId, "-",
                       allVotes[i].candidateId, "-", allVotes[i].voterToken, "-",
                       allVotes[i].timestamp>> \o SecretKey)
         /\ VerifyVoteIntegrity(allVotes[i]))
  /\ [][\/ /\ Len(allVotes') >= Len(allVotes)
           /\ SubSeq(allVotes', 1, Len(allVotes)) = allVotes
        \/ /\ Len(allVotes') < Len(allVotes)
           /\ \A i \in 1..Len(allVotes') : \E j \in i..Len(allVotes) : allVotes'[i] = allVotes[j]]_vars

\* votes of two submissions at different times are stored, and an election
\* with votes was deleted beside them
C32_Witness ==
  /\ Len(allVotes) >= 1
  /\ \E i \in 1..Len(allVotes) : allVotes[i].timestamp > 1
  /\ \E i \in 1..Len(logs) : logs[i].type = "admin_action" /\ logs[i].severity = "medium"


\* C33: every stored election carries the hashElection of its current id,
\* title, dates and positions, and no step changes the hash of an election
\* that stays stored.
C33_ElectionHashStaysValid ==
  /\ [](\A i \in 1..Len(elections) : elections[i].cryptographicHash = HashElection(elections[i]))
  /\ [][\A i \in 1..Len(elections) : \A j \in 1..Len(elections') :
          elections'[j].id = elections[i].id
            => elections'[j].cryptographicHash = elections[i].cryptographicHash]_vars

\* the election created with the form has received a vote
C33_Witness ==
  \E i \in 1..Len(elections) :
    /\ elections[i].id = "e2"
    /\ elections[i].totalVotes > 0
    /\ elections[i].cryptographicHash = HashElection(elections[i])


\* the text has a character that is not a blank
NotBlank(text) == \E i \in 1..Len(text) : text[i] # " "

\* the form has a title, a description, both dates, a start in the future and
\* an end after it, and at least one position, each with a title and at least
\* one candidate, each candidate with a name of letters and blanks
FormComplete(form) ==
  /\ NotBlank(form.title) /\ NotBlank(form.description)
  /\ form.startDate # MissingDate /\ form.endDate # MissingDate
  /\ form.startDate > now /\ form.endDate > form.startDate
  /\ Len(form.positions) >= 1
  /\ \A i \in 1..Len(form.positions) :
       /\ NotBlank(form.positions[i].title)
       /\ Len(form.positions[i].candidates) >= 1
       /\ \A j \in 1..Len(form.positions[i].candidates) :
            LET name == form.positions[i].candidates[j].name
            IN  /\ NotBlank(name)
                /\ \A k \in 1..Len(name) : name[k] \in LowerCaseChars \cup UpperCaseChars \cup {" "}

\* C34: every stored election has at least one position, every position at
\* least one candidate and maxVotes 1, and a start before its end; an
\* election enters storage with totalVotes 0; a submit of a form that is not
\* complete changes neither the elections nor the log.
C34_StoredElectionsWellFormed ==
  /\ [](\A i \in 1..Len(elections) :
         /\ Len(elections[i].positions) >= 1
         /\ \A p \in 1..Len(elections[i].positions) :
              /\ Len(elections[i].positions[p].candidates) >= 1
              /\ elections[i].positions[p].maxVotes = 1
         /\ elections[i].startDate < elections[i].endDate)
  /\ [][/\ \A j \in 1..Len(elections') :
             (\A i \in 1..Len(elections) : elections[i].id # elections'[j].id)
               => elections'[j].totalVotes = 0
        /\ \/ elections' = elections /\ logs' = logs
           \/ \A form \in FormInputs : ~FormComplete(form) => ~CreateElection(form)]_vars

\* a form with one position of two candidates was stored as the election e2
\* with no votes, and its creation was logged
C34_Witness ==
  /\ \E i \in 1..Len(elections) :
       /\ elections[i].id = "e2"
       /\ Len(elections[i].positions[1].candidates) = 2
       /\ elections[i].totalVotes = 0
  /\ \E i \in 1..Len(logs) : logs[i].type = "admin_action" /\ logs[i].electionId = "e2"


(***************************************************************************)
(* SpecLogin: the administrator and one voter have their accounts, the     *)
(* security log was cleared; the Login form is submitted in two tabs with  *)
(* known and unknown emails and right and wrong passwords, users log out,  *)
(* tabs are reloaded and the administrator clears the log.                 *)
(***************************************************************************)
\* the password the voter registered with
VoterPassword == <<"G", "O", "O", "D", "P", "a", "s", "s", "1", "!">>

\* the passwords typed into the Login form
LoginPasswords == PasswordInputs \cup {AdminPassword}

InitLogin ==
  /\ users = Append(InitializeAdminAccount(<<>>),
                    Account("v1", <<"a", "@", "b", "n", "m", "i", "t", ".", "i", "n">>, VoterPassword, "voter"))
  /\ elections = <<ElectionE2>>
  /\ allVotes = <<>>
  /\ sessions = <<>>
  /\ logs = <<>>
  /\ currentUser = NoUser
  /\ tabUser = [t \in Tabs |-> NoUser]
  /\ IdleInit
  /\ results = NoResults
  /\ savedResults = <<>>
  /\ viewCount = 0
  /\ mgmtElections = <<>>
  /\ loadedTabs = {}
  /\ NoRead
  /\ ExtraInit

NextLogin ==
  \/ \E t \in Tabs : LoadApp(t)
  \/ \E t \in Tabs : \E e \in EmailInputs : \E p \in LoginPasswords : Login(t, e, p)
  \/ \E t \in Tabs : HandleLogout(t)
  \/ \E confirmed \in BOOLEAN :
       /\ \E t \in loadedTabs : tabUser[t].role = "admin"
       /\ ClearLogs(confirmed)

SpecLogin == InitLogin /\ [][NextLogin]_vars

\* the stored users whose email is the one the form looks up
UsersWithEmail(emailInput) == {i \in 1..Len(users) : users[i].email = FormEmail(emailInput)}

\* the step appended exactly one entry of that type and severity to the log
OneEntryAppended(type, severity) ==
  /\ Len(logs') = Len(logs) + 1
  /\ SubSeq(logs', 1, Len(logs)) = logs
  /\ logs'[Len(logs')].type = type
  /\ logs'[Len(logs')].severity = severity

\* the voter's right password is typed into the Login form of the tab and
\* the voter becomes the current user
VoterLogsIn(t) ==
  /\ Login(t, <<"a", "@", "b", "n", "m", "i", "t", ".", "i", "n">>, VoterPassword)
  /\ tabUser'[t].id = "v1"
  /\ currentUser'.id = "v1"

\* C35: a login attempt with an email of the domain that matches no stored
\* user, or with a password whose hash is not the stored one, leaves the
\* current user as it was and appends exactly one invalid_access entry
\* (severity medium for the unknown email, high for the wrong password); an
\* attempt with the right password makes that user the current user and
\* appends exactly one login entry of severity low; whatever attempts failed
\* before, the right password still logs the voter in.
C35_LoginOutcomes ==
  /\ [](\A t \in loadedTabs :
          (LoggedOut(t) /\ Len(logs) < MaxLogs) => ENABLED VoterLogsIn(t))
  /\ [][\A t \in Tabs : \A e \in EmailInputs : \A p \in LoginPasswords :
          (Login(t, e, p) /\ MatchesBnmitIn(FormEmail(e))) =>
            IF UsersWithEmail(e) = {}
            THEN /\ UNCHANGED <<tabUser, currentUser, users>>
                 /\ OneEntryAppended("invalid_access", "medium")
            ELSE LET user == users[CHOOSE i \in UsersWithEmail(e) : \A j \in UsersWithEmail(e) : i <= j]
                 IN  IF user.password # GenerateSecureHash(p)
                     THEN /\ UNCHANGED <<tabUser, currentUser, users>>
                          /\ OneEntryAppended("invalid_access", "high")
                          /\ logs'[Len(logs')].userId = user.id
                     ELSE /\ tabUser' = [tabUser EXCEPT ![t] = user]
                          /\ currentUser' = user
                          /\ UNCHANGED users
                          /\ OneEntryAppended("login", "low")
                          /\ logs'[Len(logs')].userId = user.id]_vars

\* the voter's wrong password was refused, then the right one logged the voter
\* in: the log holds the refusal before the login
C35_Witness ==
  /\ Len(logs) = 2
  /\ logs[1].type = "invalid_access" /\ logs[1].severity = "high" /\ logs[1].userId = "v1"
  /\ logs[2].type = "login" /\ logs[2].severity = "low" /\ logs[2].userId = "v1"
  /\ currentUser.id = "v1"
  /\ \E t \in Tabs : tabUser[t].id = "v1"


(***************************************************************************)
(* SpecTurnout: SpecRetry with one registered voter, logged in in both     *)
(* tabs and voting in the first.                                           *)
(***************************************************************************)
InitTurnout ==
  /\ users = <<NewUser("admin", "admin"), NewUser("v1", "voter")>>
  /\ elections = <<ElectionE1, ElectionE2>>
  /\ allVotes = <<>>
  /\ sessions = <<>>
  /\ logs = <<>>
  /\ tabUser = [t \in Tabs |-> NewUser("v1", "voter")]
  /\ currentUser = tabUser["t2"]
  /\ IdleInit
  /\ OtherInit

SpecTurnout == InitTurnout /\ [][NextRetry]_vars

\* C36 (as stated): for every election, the number of distinct voter tokens
\* among its Vote records is at most the number of users with role voter.
C36_TurnoutAtMostAll ==
  \A e \in ElectionIds :
    UniqueVoters(GetVotesByElection(allVotes, e)) <= TotalRegisteredVoters(users)


\* the writes of a submission seen in one step: Vote records appended, a
\* has-voted flag set, an election counter raised, a session deactivated, a
\* vote_cast entry appended to the log
VotesWritten == Len(allVotes') > Len(allVotes)

FlagWritten ==
  \E i \in 1..Len(users) : \E e \in ElectionIds :
    /\ ~users[i].hasVoted[e]
    /\ Len(users') = Len(users) /\ users'[i].hasVoted[e]

CounterWritten ==
  \E j \in 1..Len(elections) :
    Len(elections') = Len(elections) /\ elections'[j].totalVotes > elections[j].totalVotes

SessionWritten ==
  \E j \in 1..Len(sessions) :
    Len(sessions') = Len(sessions) /\ sessions[j].isActive /\ ~sessions'[j].isActive

VoteCastWritten ==
  /\ Len(logs') = Len(logs) + 1
  /\ logs'[Len(logs')].type = "vote_cast"

\* C37: whenever the security log holds a vote_cast entry for a user and an
\* election, the user's has-voted flag for the election is set, a session of
\* the election is inactive and Vote records under its token are stored, and
\* the election's counter was raised; within a submission the writes come in
\* the order votes, flag, counter, session, log: a later one is never stored
\* without the earlier ones.
C37_VoteCastLoggedLast ==
  /\ [](\A i \in 1..Len(logs) :
          logs[i].type = "vote_cast" =>
            /\ HasUserVotedInElection(users, logs[i].userId, logs[i].electionId)
            /\ \E j \in 1..Len(sessions) :
                 /\ sessions[j].electionId = logs[i].electionId
                 /\ ~sessions[j].isActive
                 /\ \E v \in 1..Len(allVotes) :
                      /\ allVotes[v].electionId = logs[i].electionId
                      /\ allVotes[v].voterToken = sessions[j].voterToken
            /\ \E j \in 1..Len(elections) :
                 /\ elections[j].id = logs[i].electionId
                 /\ elections[j].totalVotes >= Len(elections[j].positions))
  /\ [][/\ VoteCastWritten => SessionWritten
        /\ SessionWritten => CounterWritten
        /\ CounterWritten => FlagWritten
        /\ FlagWritten => VotesWritten]_vars

\* a submission went through to its log entry
C37_Witness ==
  \E i \in 1..Len(logs) :
    /\ logs[i].type = "vote_cast"
    /\ HasUserVotedInElection(users, logs[i].userId, logs[i].electionId)
    /\ \E j \in 1..Len(sessions) : ~sessions[j].isActive


(***************************************************************************)
(* SpecViews: the results page opened when results of earlier views, taken *)
(* before any vote was stored, are in the ElectionResults collection.      *)
(***************************************************************************)
\* the results a view stored while the Votes collection was empty
EarlierResults(i) == CalculateResults(TallyElections[i], <<>>, <<NewUser("admin", "admin")>>)

InitViews ==
  /\ users = <<NewUser("admin", "admin"), NewUser("v1", "voter"), NewUser("v2", "voter")>>
  /\ elections = TallyElections
  /\ allVotes \in SeqsUpTo(TallyVotes, 2)
  /\ sessions = <<>>
  /\ logs = <<>>
  /\ tabUser = [t \in Tabs |-> NewUser("admin", "admin")]
  /\ currentUser = NewUser("admin", "admin")
  /\ IdleInit
  /\ results = NoResults
  /\ savedResults \in {<<>>, <<EarlierResults(1)>>, <<EarlierResults(2)>>,
                       <<EarlierResults(1), EarlierResults(2)>>,
                       <<EarlierResults(2), EarlierResults(1)>>}
  /\ viewCount = 0
  /\ mgmtElections = <<>>
  /\ loadedTabs = Tabs
  /\ NoRead
  /\ ExtraInit

SpecViews == InitViews /\ [][NextResults]_vars

\* C38: the stored ElectionResults collection holds at most one entry per
\* election id; viewing the results of an election puts the freshly computed
\* results in the place of that election's entry, or at the end when there
\* is none, and leaves the entries of all other elections as they were.
C38_OneResultPerElection ==
  /\ [](\A i, j \in 1..Len(savedResults) :
          savedResults[i].electionId = savedResults[j].electionId => i = j)
  /\ [][\A i \in 1..Len(elections) : ViewResults(i) =>
          LET had == {k \in 1..Len(savedResults) : savedResults[k].electionId = elections[i].id}
          IN  /\ results'.electionId = elections[i].id
              /\ results'.totalParticipants =
                   Cardinality({allVotes[v].voterToken :
                                  v \in {w \in 1..Len(allVotes) : allVotes[w].electionId = elections[i].id}})
              /\ \A k \in 1..Len(savedResults) :
                   savedResults'[k] = IF k \in had THEN results' ELSE savedResults[k]
              /\ IF had # {}
                 THEN Len(savedResults') = Len(savedResults)
                 ELSE /\ Len(savedResults') = Len(savedResults) + 1
                      /\ savedResults'[Len(savedResults')] = results']_vars

\* the first election's entry was replaced by results that count a
\* participant, next to the second election's earlier entry
C38_Witness ==
  /\ Len(savedResults) = 2
  /\ savedResults[1].electionId = "r1" /\ savedResults[1].totalParticipants > 0
  /\ savedResults[2] = EarlierResults(2)
  /\ \E v \in 1..Len(allVotes) : allVotes[v].electionId = "r2"
  /\ results = savedResults[1]


\* the step is a submission of the registration form
Registration ==
  \E t \in Tabs : \E e \in LifecycleEmails : \E p \in LifecyclePasswords : Register(t, e, p, p)

\* C39: no step changes the role of a stored user record or removes a
\* record, every record a registration adds has role voter, and a has-voted
\* flag that is set stays set.
C39_RoleAndFlagKept ==
  [][/\ Len(users') >= Len(users)
     /\ \A i \in 1..Len(users) :
          /\ users'[i].id = users[i].id
          /\ users'[i].role = users[i].role
          /\ \A e \in ElectionIds : users[i].hasVoted[e] => users'[i].hasVoted[e]
     /\ Registration =>
          \A i \in (Len(users) + 1)..Len(users') : users'[i].role = "voter"]_vars

\* a registered voter has voted, next to the administrator's record
C39_Witness ==
  /\ \E i \in 1..Len(users) : users[i].role = "admin"
  /\ \E i \in 1..Len(users) :
       /\ users[i].role = "voter"
       /\ users[i].id \in {UserIds[n] : n \in 1..Len(UserIds)}
       /\ \E e \in ElectionIds : users[i].hasVoted[e]

====
